---------------------------- MODULE Spec2Model ----------------------------
(***************************************************************************)
(* A model of src/mob/json_flattener.py (class JSONFlattener): the         *)
(* structural validator and the transcript projector that turns one nested *)
(* transcript document into one file record plus one record per chunk.     *)
(*                                                                         *)
(* Python values are tagged records; a Python str is a sequence of         *)
(* one-character strings, so that rstrip, strip, the f-string of the chunk *)
(* id and the ISO-8601 parse and print are computed, not assumed.          *)
(***************************************************************************)
EXTENDS Integers, Sequences, FiniteSets, TLC

VARIABLES
    raw,         \* the input document
    flatteners,  \* the JSONFlattener instances, by number
    clock,       \* the wall clock
    validated,   \* what the last validate_document_structure(raw) call returned
    returned,    \* what the last flatten_for_ai_search(raw) call of each instance returned
    escaped,     \* whether an exception has reached a caller
    key_given,   \* the argument of _sanitize_key
    key_returned,        \* what the last _sanitize_key(key_given) call returned
    nested_json, \* the first argument of flatten_json
    prefix,      \* the second argument of flatten_json
    json_returned,       \* what the last flatten_json(nested_json, prefix) call returned
    disk,        \* the files batch_flatten_json can open, by path
    json_files,  \* the first argument of batch_flatten_json
    validate_only,       \* the second argument of batch_flatten_json
    pc,                  \* where the batch_flatten_json call stands
    file_path,           \* the position of the for loop in json_files
    flattened_documents, \* the local flattened_documents of the call
    processed_count,     \* the local processed_count of the call
    error_count,         \* the local error_count of the call
    batch_returned,      \* what the batch_flatten_json call returned
    flat_document,       \* the argument of validate_flattened_document
    flat_validated,      \* what the last validate_flattened_document(flat_document) call returned
    flat_documents,      \* the argument of get_document_statistics
    statistics,          \* what the get_document_statistics(flat_documents) call returned
    calls,               \* the call each thread makes: method, instance and arguments
    frames,              \* the locals of each thread's call and where it stands
    heap,                \* the lists and dicts the calls have created, by address
    thread_returned,     \* what each thread's call returned
    file_paths,          \* the first argument of batch_ingest_preprocessed
    source_info,         \* the second argument of batch_ingest_preprocessed
    ingest_pc,           \* where the batch_ingest_preprocessed call stands
    ingest_index,        \* the position of its for loop in file_paths
    ingest_document,     \* its local document: what ingest_preprocessed_document returned
    documents,           \* its local documents
    ingest_returned      \* what the batch_ingest_preprocessed call returned

\* the state of the calls on one transcript document
projector_vars == <<raw, clock, validated, returned, escaped>>
\* the state of the _sanitize_key calls
sanitize_vars == <<key_given, key_returned>>
\* the state of the flatten_json calls
json_vars == <<nested_json, prefix, json_returned>>
\* the state of one batch_flatten_json call
batch_vars ==
    <<disk, json_files, validate_only, pc, file_path, flattened_documents,
      processed_count, error_count, batch_returned>>

\* the state of the calls on flattened records
record_vars == <<flat_document, flat_validated, flat_documents, statistics>>
\* the state of the calls that run in threads
thread_vars == <<calls, frames, heap, thread_returned>>
\* the state of one batch_ingest_preprocessed call
ingest_vars ==
    <<file_paths, source_info, ingest_pc, ingest_index, ingest_document, documents,
      ingest_returned>>
\* the state no JSONFlattener call on documents, keys, values or files touches
other_vars == <<record_vars, thread_vars, ingest_vars>>

vars ==
    <<flatteners, projector_vars, sanitize_vars, json_vars, batch_vars, other_vars>>

---------------------------------------------------------------------------
(* Bounds of the model *)

\* the longest transcript_chunks list of an input document
MaxChunks == 2
\* the number of wall-clock ticks between calls
MaxClock == 1
\* the longest key given to _sanitize_key
MaxKeyLen == 2
\* the longest sequence of scalars in a flatten_json input
MaxItems == 2
\* the number of containers around a shallow flatten_json input
MaxNesting == 2
\* the longest json_files list given to batch_flatten_json
MaxFiles == 2
\* the longest flat_documents list given to get_document_statistics
MaxRecords == 3

---------------------------------------------------------------------------
(* Python values *)

PyNone == [t |-> "none"]
PyStr(s) == [t |-> "str", s |-> s]
PyInt(n) == [t |-> "int", n |-> n]
\* a float, held in thousandths: PyFloat(1500) is 1.5
PyFloat(m) == [t |-> "float", m |-> m]
PyBool(b) == [t |-> "bool", b |-> b]
PyList(xs) == [t |-> "list", items |-> xs]
PyDict(d) == [t |-> "dict", d |-> d]
\* a dict as .items() walks it: <<key, value>> pairs in insertion order, the
\* keys being str held as character sequences
PyDictItems(pairs) == [t |-> "dict", pairs |-> pairs]

\* the outcome of running a block of Python: a returned value or a raised exception
Return(v) == [kind |-> "return", val |-> v]
Raise(e) == [kind |-> "raise", exc |-> e]

\* outcome, then rest on its value: an exception raised by outcome skips rest
\* and propagates
Bind(outcome, rest(_)) ==
    IF outcome.kind = "raise" THEN outcome ELSE rest(outcome.val)

\* try: outcome / except Exception: return value
Except(outcome, value) ==
    IF outcome.kind = "raise" THEN Return(value) ELSE outcome

\* bool(v)
Truthy(v) ==
    CASE v.t = "none" -> FALSE
      [] v.t = "str" -> v.s # <<>>
      [] v.t = "int" -> v.n # 0
      [] v.t = "float" -> v.m # 0
      [] v.t = "list" -> v.items # <<>>
      [] v.t = "dict" -> DOMAIN v.d # {}

\* the characters of the dictionary keys the code tests with `in`
KeyChars(k) ==
    CASE k = "id" -> <<"i", "d">>
      [] k = "metadata" -> <<"m", "e", "t", "a", "d", "a", "t", "a">>
      [] k = "transcript_chunks" ->
           <<"t", "r", "a", "n", "s", "c", "r", "i", "p", "t", "_",
             "c", "h", "u", "n", "k", "s">>

\* sub in s, for two str
IsSubstring(sub, s) ==
    \E i \in 0..(Len(s) - Len(sub)) : SubSeq(s, i + 1, i + Len(sub)) = sub

\* `key in container`: membership for a dict, element equality for a list,
\* substring for a str, TypeError for a value that is no container
py_in(key, container) ==
    CASE container.t = "dict" -> Return(key \in DOMAIN container.d)
      [] container.t = "list" ->
           Return(\E i \in 1..Len(container.items) :
                      container.items[i] = PyStr(KeyChars(key)))
      [] container.t = "str" -> Return(IsSubstring(KeyChars(key), container.s))
      [] OTHER -> Raise("TypeError")

\* document.get(key): AttributeError unless the document is a dict
py_get(document, key) ==
    IF document.t # "dict" THEN Raise("AttributeError")
    ELSE IF key \in DOMAIN document.d THEN Return(document.d[key])
    ELSE Return(PyNone)

\* mapping[key] for a str key: KeyError when a dict lacks the key, TypeError
\* when the value is no dict (a str, a list, a number, None)
py_item(mapping, key) ==
    IF mapping.t # "dict" THEN Raise("TypeError")
    ELSE IF key \in DOMAIN mapping.d THEN Return(mapping.d[key])
    ELSE Raise("KeyError")

---------------------------------------------------------------------------
(* JSONFlattener.__init__ *)

\* the fields __init__ sets
NewFlattener(separator, max_depth) ==
    [separator |-> separator, max_depth |-> max_depth,
     required_keys |-> <<"id", "metadata">>, transcript_schema |-> TRUE]

\* the fields every chunk must have
required_chunk_fields == <<"speaker", "start", "end", "text">>

---------------------------------------------------------------------------
(* validate_document_structure *)

\* [key for key in self.required_keys if key not in document], or the
\* TypeError of the first `in`
missing_keys(self, document) ==
    IF py_in(self.required_keys[1], document).kind = "raise"
    THEN Raise("TypeError")
    ELSE Return(SelectSeq(self.required_keys,
                          LAMBDA key : ~py_in(key, document).val))

\* missing_chunk_fields as it would be if text were not among the required
\* chunk fields
missing_chunk_fields_but_text(chunk) ==
    SelectSeq(<<"speaker", "start", "end">>, LAMBDA field : field \notin DOMAIN chunk.d)

\* missing_chunk_fields as it would be if a start or end that is no number
\* counted as missing
missing_or_mistyped_chunk_fields(chunk) ==
    SelectSeq(required_chunk_fields,
              LAMBDA field : \/ field \notin DOMAIN chunk.d
                             \/ /\ field \in {"start", "end"}
                                /\ chunk.d[field].t \notin {"int", "float"})

\* [field for field in required_chunk_fields if field not in chunk]
missing_chunk_fields(chunk) ==
    SelectSeq(required_chunk_fields, LAMBDA field : field \notin DOMAIN chunk.d)

\* the loop over the chunks from position i on (1-based here): FALSE at the
\* first chunk that is no dict or lacks a field, TRUE when the loop ends
RECURSIVE validate_chunks(_, _)
validate_chunks(chunks, i) ==
    IF i > Len(chunks) THEN TRUE
    ELSE IF chunks[i].t # "dict" THEN FALSE
    ELSE IF missing_chunk_fields(chunks[i]) # <<>> THEN FALSE
    ELSE validate_chunks(chunks, i + 1)

\* the body of the try block
validate_body(self, document) ==
    Bind(missing_keys(self, document), LAMBDA missing :
    IF missing # <<>> THEN Return(FALSE)
    ELSE Bind(py_get(document, "id"), LAMBDA id :
    IF ~Truthy(id) THEN Return(FALSE)
    ELSE Bind(py_get(document, "metadata"), LAMBDA metadata :
    IF metadata.t # "dict" THEN Return(FALSE)
    ELSE IF "transcript_chunks" \in DOMAIN document.d
    THEN IF document.d["transcript_chunks"].t # "list" THEN Return(FALSE)
         ELSE Return(validate_chunks(document.d["transcript_chunks"].items, 1))
    ELSE Return(TRUE))))

\* try: ... except Exception: return False
validate_document_structure(self, document) ==
    Except(validate_body(self, document), FALSE)

---------------------------------------------------------------------------
(* str methods and conversions *)

\* the characters str.strip() removes (those the input documents use)
Whitespace == {" ", "\t", "\n"}

\* s.rstrip(chars): every trailing character that is in chars is removed
RECURSIVE py_rstrip(_, _)
py_rstrip(s, chars) ==
    IF s # <<>> /\ s[Len(s)] \in chars
    THEN py_rstrip(SubSeq(s, 1, Len(s) - 1), chars)
    ELSE s

\* s.lstrip(chars)
RECURSIVE py_lstrip(_, _)
py_lstrip(s, chars) ==
    IF s # <<>> /\ s[1] \in chars THEN py_lstrip(Tail(s), chars) ELSE s

\* s.strip(): leading and trailing whitespace removed
py_strip(s) == py_lstrip(py_rstrip(s, Whitespace), Whitespace)

DigitChars == <<"0", "1", "2", "3", "4", "5", "6", "7", "8", "9">>

IsDigit(c) == \E d \in 1..10 : DigitChars[d] = c

DigitVal(c) == (CHOOSE d \in 1..10 : DigitChars[d] = c) - 1

\* the decimal digits of a natural number
RECURSIVE NatChars(_)
NatChars(n) ==
    IF n < 10 THEN <<DigitChars[n + 1]>>
    ELSE NatChars(n \div 10) \o <<DigitChars[(n % 10) + 1]>>

\* "%0<width>d" % n
RECURSIVE ZeroPad(_, _)
ZeroPad(n, width) ==
    IF Len(NatChars(n)) >= width THEN NatChars(n)
    ELSE <<"0">> \o ZeroPad(n, width - 1) 

\* int(s) for a str of digits
RECURSIVE DigitsVal(_)
DigitsVal(s) ==
    IF s = <<>> THEN 0
    ELSE DigitsVal(SubSeq(s, 1, Len(s) - 1)) * 10 + DigitVal(s[Len(s)])

AllDigits(s) == \A i \in 1..Len(s) : IsDigit(s[i])

\* the digits after the point of a float held in thousandths: the shortest
\* that read back as the same float, and at least one
float_fraction(thousandths) ==
    IF thousandths = 0 THEN <<"0">> ELSE py_rstrip(ZeroPad(thousandths, 3), {"0"})

\* str(v) of a float: repr, for magnitudes printed without an exponent
float_str(m) ==
    (IF m < 0 THEN <<"-">> ELSE <<>>)
    \o NatChars((IF m < 0 THEN -m ELSE m) \div 1000) \o <<".">>
    \o float_fraction((IF m < 0 THEN -m ELSE m) % 1000)

\* str(v), as an f-string field and str() format it
py_str(v) ==
    CASE v.t = "str" -> v.s
      [] v.t = "int" -> IF v.n < 0 THEN <<"-">> \o NatChars(-v.n) ELSE NatChars(v.n)
      [] v.t = "none" -> <<"N", "o", "n", "e">>
      [] v.t = "bool" -> IF v.b THEN <<"T", "r", "u", "e">>
                                ELSE <<"F", "a", "l", "s", "e">>
      [] v.t = "float" -> float_str(v.m)

---------------------------------------------------------------------------
(* datetime and timedelta of the standard library, as the projector uses them *)

IsLeap(year) == year % 4 = 0 /\ (year % 100 # 0 \/ year % 400 = 0)

DaysInMonth(year, month) ==
    IF month = 2 THEN (IF IsLeap(year) THEN 29 ELSE 28)
    ELSE IF month \in {4, 6, 9, 11} THEN 30 ELSE 31

\* the days of a common year before the first of the month
DaysBeforeMonthCommon ==
    <<0, 31, 59, 90, 120, 151, 181, 212, 243, 273, 304, 334>>

DaysBeforeMonth(year, month) ==
    DaysBeforeMonthCommon[month] + (IF month > 2 /\ IsLeap(year) THEN 1 ELSE 0)

DaysBeforeYear(year) ==
    LET y == year - 1 IN y * 365 + (y \div 4) - (y \div 100) + (y \div 400)

\* date.toordinal(): 0001-01-01 is day 1
ToOrdinal(year, month, day) ==
    DaysBeforeYear(year) + DaysBeforeMonth(year, month) + day

\* date.fromordinal(n)
FromOrdinal(ordinal) ==
    LET n0 == ordinal - 1
        n400 == n0 \div 146097
        r400 == n0 % 146097
        n100 == r400 \div 36524
        r100 == r400 % 36524
        n4 == r100 \div 1461
        r4 == r100 % 1461
        n1 == r4 \div 365
        n == r4 % 365
        year == n400 * 400 + 1 + n100 * 100 + n4 * 4 + n1
    IN  IF n1 = 4 \/ n100 = 4
        THEN [year |-> year - 1, month |-> 12, day |-> 31]
        ELSE LET leapyear == n1 = 3 /\ (n4 # 24 \/ n100 = 3)
                 leap == IF leapyear THEN 1 ELSE 0
                 guess == (n + 50) \div 32
                 before(m) == DaysBeforeMonthCommon[m] + (IF m > 2 THEN leap ELSE 0)
                 month == IF before(guess) > n THEN guess - 1 ELSE guess
             IN  [year |-> year, month |-> month, day |-> n - before(month) + 1]

\* a naive time zone, and one with a UTC offset in minutes
NoTz == [aware |-> FALSE, minutes |-> 0]
Tz(minutes) == [aware |-> TRUE, minutes |-> minutes]

\* date(year, month, day): ValueError for a field out of range
make_date(year, month, day) ==
    IF year >= 1 /\ month \in 1..12 /\ day >= 1 /\ day <= DaysInMonth(year, month)
    THEN Return([year |-> year, month |-> month, day |-> day])
    ELSE Raise("ValueError")

\* time(hour, minute, second): ValueError for a field out of range
make_time(hour, minute, second) ==
    IF hour < 24 /\ minute < 60 /\ second < 60
    THEN Return([hour |-> hour, minute |-> minute, second |-> second])
    ELSE Raise("ValueError")

\* timezone(sign * timedelta(minutes=minutes)): ValueError from a whole day on
make_tz(sign, minutes) ==
    IF minutes < 1440 THEN Return(Tz(IF sign = "-" THEN -minutes ELSE minutes))
    ELSE Raise("ValueError")

\* "YYYY-MM-DD": the date fields, or ValueError
parse_isoformat_date(s) ==
    IF /\ Len(s) = 10
       /\ AllDigits(SubSeq(s, 1, 4)) /\ s[5] = "-"
       /\ AllDigits(SubSeq(s, 6, 7)) /\ s[8] = "-"
       /\ AllDigits(SubSeq(s, 9, 10))
    THEN make_date(DigitsVal(SubSeq(s, 1, 4)), DigitsVal(SubSeq(s, 6, 7)),
                   DigitsVal(SubSeq(s, 9, 10)))
    ELSE Raise("ValueError")

\* "HH:MM:SS": the time fields, or ValueError
parse_isoformat_time(s) ==
    IF /\ Len(s) = 8
       /\ AllDigits(SubSeq(s, 1, 2)) /\ s[3] = ":"
       /\ AllDigits(SubSeq(s, 4, 5)) /\ s[6] = ":"
       /\ AllDigits(SubSeq(s, 7, 8))
    THEN make_time(DigitsVal(SubSeq(s, 1, 2)), DigitsVal(SubSeq(s, 4, 5)),
                   DigitsVal(SubSeq(s, 7, 8)))
    ELSE Raise("ValueError")

\* "+HH:MM" or "-HH:MM": the time zone, or ValueError
parse_isoformat_tz(s) ==
    IF /\ Len(s) = 6
       /\ s[1] \in {"+", "-"}
       /\ AllDigits(SubSeq(s, 2, 3)) /\ s[4] = ":"
       /\ AllDigits(SubSeq(s, 5, 6))
    THEN make_tz(s[1], DigitsVal(SubSeq(s, 2, 3)) * 60 + DigitsVal(SubSeq(s, 5, 6)))
    ELSE Raise("ValueError")

\* datetime.combine(date, time) with a time zone and no microseconds
combine(date, time, tz) ==
    [year |-> date.year, month |-> date.month, day |-> date.day,
     hour |-> time.hour, minute |-> time.minute, second |-> time.second,
     microsecond |-> 0, tz |-> tz]

\* datetime.fromisoformat(s) for the forms "YYYY-MM-DD",
\* "YYYY-MM-DD?HH:MM:SS" and "YYYY-MM-DD?HH:MM:SS+HH:MM" (? is any one
\* character); every other str of the input documents is no ISO date at all
\* and raises ValueError
fromisoformat(s) ==
    IF Len(s) \notin {10, 19, 25} THEN Raise("ValueError")
    ELSE Bind(parse_isoformat_date(SubSeq(s, 1, 10)), LAMBDA date :
         Bind(IF Len(s) = 10 THEN make_time(0, 0, 0)
              ELSE parse_isoformat_time(SubSeq(s, 12, 19)), LAMBDA time :
         Bind(IF Len(s) = 25 THEN parse_isoformat_tz(SubSeq(s, 20, 25))
              ELSE Return(NoTz), LAMBDA tz :
         Return(combine(date, time, tz)))))

\* timedelta(seconds=v), normalised to days, seconds in 0..86399 and
\* microseconds in 0..999999; TypeError for a value that is no number
timedelta(v) ==
    CASE v.t = "int" ->
           Return([days |-> v.n \div 86400, seconds |-> v.n % 86400,
                   microseconds |-> 0])
      [] v.t = "float" ->
           LET whole == v.m \div 1000 IN
           Return([days |-> whole \div 86400, seconds |-> whole % 86400,
                   microseconds |-> (v.m % 1000) * 1000])
      [] OTHER -> Raise("TypeError")

\* the datetime of a day ordinal, a second of the day and microseconds:
\* OverflowError outside 0001-01-01 .. 9999-12-31
datetime_of(days, second_of_day, microsecond, tz) ==
    IF 0 < days /\ days <= 3652059
    THEN Return([combine(FromOrdinal(days),
                         [hour |-> second_of_day \div 3600,
                          minute |-> (second_of_day % 3600) \div 60,
                          second |-> second_of_day % 60], tz)
                 EXCEPT !.microsecond = microsecond])
    ELSE Raise("OverflowError")

\* days, seconds and microseconds with the carries done
normalised(days, seconds, microseconds, tz) ==
    datetime_of(days + ((seconds + (microseconds \div 1000000)) \div 86400),
                (seconds + (microseconds \div 1000000)) % 86400,
                microseconds % 1000000, tz)

\* datetime + timedelta: through the day ordinal
datetime_add(dt, td) ==
    normalised(ToOrdinal(dt.year, dt.month, dt.day) + td.days,
               dt.hour * 3600 + dt.minute * 60 + dt.second + td.seconds,
               dt.microsecond + td.microseconds, dt.tz)

\* datetime.isoformat(): "YYYY-MM-DDTHH:MM:SS", ".ffffff" when the
\* microseconds are not 0, "+HH:MM" or "-HH:MM" when the datetime has a zone
isoformat(dt) ==
    LET off == IF dt.tz.minutes < 0 THEN -dt.tz.minutes ELSE dt.tz.minutes IN
    ZeroPad(dt.year, 4) \o <<"-">> \o ZeroPad(dt.month, 2) \o <<"-">>
    \o ZeroPad(dt.day, 2) \o <<"T">> \o ZeroPad(dt.hour, 2) \o <<":">>
    \o ZeroPad(dt.minute, 2) \o <<":">> \o ZeroPad(dt.second, 2)
    \o (IF dt.microsecond # 0 THEN <<".">> \o ZeroPad(dt.microsecond, 6) ELSE <<>>)
    \o (IF dt.tz.aware
        THEN <<(IF dt.tz.minutes < 0 THEN "-" ELSE "+")>> \o ZeroPad(off \div 60, 2)
             \o <<":">> \o ZeroPad(off % 60, 2)
        ELSE <<>>)

---------------------------------------------------------------------------
(* flatten_for_ai_search *)

\* the metadata fields a chunk record copies
ChunkMetaFields ==
    {"transaction_key", "request_id", "sha256", "created", "duration",
     "channels", "Filename", "videolink"}

\* the metadata fields the file record copies
FileMetaFields == ChunkMetaFields \cup {"flattened_transcript"}

\* "upload"
Upload == PyStr(<<"u", "p", "l", "o", "a", "d">>)

\* {key: meta[key] for the keys}: KeyError when meta lacks one of them
meta_fields(meta, keys) ==
    IF meta.t # "dict" THEN Raise("TypeError")
    ELSE IF keys \subseteq DOMAIN meta.d THEN Return([k \in keys |-> meta.d[k]])
    ELSE Raise("KeyError")

\* file_doc as it would be if created were stored normalised, without its
\* trailing "Z", instead of verbatim
file_doc_created_stripped(document, meta) ==
    Bind(py_item(document, "id"), LAMBDA id :
    Bind(meta_fields(meta, FileMetaFields), LAMBDA fields :
    Return(PyDict(("@search.action" :> Upload) @@ ("id" :> id)
                  @@ ("created" :> PyStr(py_rstrip(fields["created"].s, {"Z"})))
                  @@ fields))))

\* the document-level record
file_doc(document, meta) ==
    Bind(py_item(document, "id"), LAMBDA id :
    Bind(meta_fields(meta, FileMetaFields), LAMBDA fields :
    Return(PyDict(("@search.action" :> Upload) @@ ("id" :> id) @@ fields))))

\* (base + timedelta(seconds=offset)).isoformat() + "Z"
offset_at(base, offset) ==
    Bind(timedelta(offset), LAMBDA td :
    Bind(datetime_add(base, td), LAMBDA at :
    Return(PyStr(isoformat(at) \o <<"Z">>))))

\* chunk["text"].strip(): AttributeError unless the text is a str
text_stripped(chunk) ==
    Bind(py_item(chunk, "text"), LAMBDA text :
    IF text.t # "str" THEN Raise("AttributeError")
    ELSE Return(PyStr(py_strip(text.s))))

\* chunk_id as it would be with enumerate(..., 1): positions counted from 1
chunk_id_one_based(self, document, i) ==
    Bind(py_item(document, "id"), LAMBDA id :
    Return(PyStr(py_str(id) \o <<"_">> \o NatChars(i + 1))))

\* chunk_id as it would be if the instance's separator joined id and position
chunk_id_by_separator(self, document, i) ==
    Bind(py_item(document, "id"), LAMBDA id :
    Return(PyStr(py_str(id) \o self.separator \o NatChars(i))))

\* chunk_id as it would be without the position
chunk_id_unindexed(self, document, i) ==
    Bind(py_item(document, "id"), LAMBDA id :
    Return(PyStr(py_str(id) \o <<"_">>)))

\* f"{raw['id']}_{i}"
chunk_id(self, document, i) ==
    Bind(py_item(document, "id"), LAMBDA id :
    Return(PyStr(py_str(id) \o <<"_">> \o NatChars(i))))

\* the record of the chunk at 0-based position i
chunk_doc(self, document, meta, base, i, chunk) ==
    Bind(py_item(chunk, "start"), LAMBDA start :
    Bind(py_item(chunk, "end"), LAMBDA end :
    Bind(chunk_id(self, document, i), LAMBDA id :
    Bind(py_item(document, "id"), LAMBDA parentDocId :
    Bind(meta_fields(meta, ChunkMetaFields), LAMBDA fields :
    Bind(py_item(chunk, "speaker"), LAMBDA speaker :
    Bind(offset_at(base, start), LAMBDA start_at :
    Bind(offset_at(base, end), LAMBDA end_at :
    Bind(text_stripped(chunk), LAMBDA text :
    Return(PyDict(
        ("@search.action" :> Upload) @@ ("id" :> id)
        @@ ("parentDocId" :> parentDocId) @@ fields
        @@ ("speaker" :> speaker) @@ ("start_offset" :> start)
        @@ ("end_offset" :> end) @@ ("start_at" :> start_at)
        @@ ("end_at" :> end_at) @@ ("text" :> text))))))))))))

\* the loop over enumerate(raw["transcript_chunks"]) from 0-based position i
\* on, appending to docs; the exception of the first chunk that raises
RECURSIVE chunk_docs(_, _, _, _, _, _, _)
chunk_docs(self, document, meta, base, chunks, i, docs) ==
    IF i >= Len(chunks) THEN Return(PyList(docs))
    ELSE Bind(chunk_doc(self, document, meta, base, i, chunks[i + 1]), LAMBDA doc :
         chunk_docs(self, document, meta, base, chunks, i + 1, Append(docs, doc)))

\* py_iter as it would be if the chunks were walked last to first
py_iter_reversed(chunks) ==
    CASE chunks.t = "list" ->
           Return([i \in 1..Len(chunks.items) |->
                       chunks.items[Len(chunks.items) + 1 - i]])
      [] chunks.t = "str" -> Return([i \in 1..Len(chunks.s) |-> PyStr(<<chunks.s[i]>>)])
      [] OTHER -> Raise("TypeError")

\* for ... in enumerate(chunks): the items of a list, the characters of a
\* str, TypeError for a value that cannot be iterated (None, a number); a
\* validated document always has a list here
py_iter(chunks) ==
    CASE chunks.t = "list" -> Return(chunks.items)
      [] chunks.t = "str" -> Return([i \in 1..Len(chunks.s) |-> PyStr(<<chunks.s[i]>>)])
      [] OTHER -> Raise("TypeError")

\* created_stripped as it would be without the rstrip("Z")
created_unstripped(meta) ==
    Bind(py_item(meta, "created"), LAMBDA created :
    IF created.t # "str" THEN Raise("AttributeError")
    ELSE Return(created.s))

\* meta["created"].rstrip("Z"): KeyError without the key, AttributeError
\* unless created is a str
created_stripped(meta) ==
    Bind(py_item(meta, "created"), LAMBDA created :
    IF created.t # "str" THEN Raise("AttributeError")
    ELSE Return(py_rstrip(created.s, {"Z"})))

\* project as it would be without docs.append(file_doc)
project_without_file(self, document) ==
    Bind(py_item(document, "metadata"), LAMBDA meta :
    Bind(created_stripped(meta), LAMBDA stripped :
    Bind(fromisoformat(stripped), LAMBDA base :
    Bind(file_doc(document, meta), LAMBDA file :
    Bind(py_item(document, "transcript_chunks"), LAMBDA chunks :
    Bind(py_iter(chunks), LAMBDA items :
    chunk_docs(self, document, meta, base, items, 0, <<>>)))))))

\* the statements of the try block after the validation
project(self, document) ==
    Bind(py_item(document, "metadata"), LAMBDA meta :
    Bind(created_stripped(meta), LAMBDA stripped :
    Bind(fromisoformat(stripped), LAMBDA base :
    Bind(file_doc(document, meta), LAMBDA file :
    Bind(py_item(document, "transcript_chunks"), LAMBDA chunks :
    Bind(py_iter(chunks), LAMBDA items :
    chunk_docs(self, document, meta, base, items, 0, <<file>>)))))))

\* flatten_body as it would be if the validation result were ignored
flatten_body_unvalidated(self, document) ==
    project(self, document)

\* the body of the try block
flatten_body(self, document) ==
    IF ~validate_document_structure(self, document).val THEN Return(PyNone)
    ELSE project(self, document)

\* flatten_for_ai_search as it would be without the except clause
flatten_for_ai_search_uncaught(self, document) ==
    flatten_body(self, document)

\* try: ... except Exception: return None
flatten_for_ai_search(self, document) ==
    Except(flatten_body(self, document), PyNone)

---------------------------------------------------------------------------
(* _sanitize_key *)

\* the characters str.isalpha accepts, among those the keys are written in
Letters ==
    {"a", "b", "c", "d", "e", "f", "g", "h", "i", "j", "k", "l", "m",
     "n", "o", "p", "q", "r", "s", "t", "u", "v", "w", "x", "y", "z",
     "A", "B", "C", "D", "E", "F", "G", "H", "I", "J", "K", "L", "M",
     "N", "O", "P", "Q", "R", "S", "T", "U", "V", "W", "X", "Y", "Z"}

\* c.isalpha() for one character
isalpha(c) == c \in Letters

\* s.replace(old, new) for a one-character old
RECURSIVE py_replace(_, _, _)
py_replace(s, old, new) ==
    IF s = <<>> THEN <<>>
    ELSE (IF Head(s) = old THEN new ELSE <<Head(s)>>) \o py_replace(Tail(s), old, new)

\* f"field_{sanitized}" when sanitized is not empty and starts with neither
\* a letter nor an underscore
field_prefixed(sanitized) ==
    IF sanitized # <<>> /\ ~isalpha(sanitized[1]) /\ sanitized[1] # "_"
    THEN <<"f", "i", "e", "l", "d", "_">> \o sanitized
    ELSE sanitized

\* self._sanitize_key(key): the replacement character is the literal '_',
\* whatever self.separator is
_sanitize_key(self, key) ==
    field_prefixed(
        py_replace(py_replace(py_replace(key, " ", <<"_">>), "-", <<"_">>), ".", <<"_">>))

---------------------------------------------------------------------------
(* flatten_json *)

\* the stored str as it would be without the `obj is None` branch
leaf_str_of_none(obj) == PyStr(py_str(obj))

\* the str stored for a leaf: "" for None, str(obj) for everything else
leaf_str(obj) == IF obj.t = "none" THEN PyStr(<<>>) ELSE PyStr(py_str(obj))

\* new_key as it would be if the prefix were left out
dict_new_key_unprefixed(self, current_prefix, k) == _sanitize_key(self, k)

\* new_key for the entry under key: the prefix and the sanitized key, with
\* nothing between them
dict_new_key(self, current_prefix, k) ==
    IF current_prefix # <<>> THEN current_prefix \o _sanitize_key(self, k)
    ELSE _sanitize_key(self, k)

\* new_key as it would be if enumerate counted from 1
list_new_key_one_based(current_prefix, i) ==
    current_prefix \o <<"[">> \o NatChars(i + 1) \o <<"]">>

\* new_key for the element at position i (0-based)
list_new_key(current_prefix, i) ==
    IF current_prefix # <<>> THEN current_prefix \o <<"[">> \o NatChars(i) \o <<"]">>
    ELSE <<"[">> \o NatChars(i) \o <<"]">>

\* flattened[current_prefix] = value: a later assignment replaces an earlier one
setitem(flattened_so_far, current_prefix, value) ==
    (current_prefix :> value) @@ flattened_so_far

\* the depth test as it would be if it stopped at max_depth itself
beyond_max_depth_inclusive(self, depth) == depth >= self.max_depth

\* depth > self.max_depth, the test _flatten returns on
beyond_max_depth(self, depth) == depth > self.max_depth

\* _flatten(obj, current_prefix, depth), as a function from the closure's
\* flattened before the call to flattened after it; n is the position of the
\* for loop over obj.items() or enumerate(obj), 0 where obj is a leaf
RECURSIVE _flatten(_, _, _, _, _, _)
_flatten(self, obj, current_prefix, depth, n, flattened_so_far) ==
    IF beyond_max_depth(self, depth) THEN flattened_so_far
    ELSE IF obj.t = "dict" THEN
        IF n > Len(obj.pairs) THEN flattened_so_far
        ELSE _flatten(self, obj, current_prefix, depth, n + 1,
                 _flatten(self, obj.pairs[n][2],
                          dict_new_key(self, current_prefix, obj.pairs[n][1]),
                          depth + 1, 1, flattened_so_far))
    ELSE IF obj.t = "list" THEN
        IF n > Len(obj.items) THEN flattened_so_far
        ELSE _flatten(self, obj, current_prefix, depth, n + 1,
                 _flatten(self, obj.items[n], list_new_key(current_prefix, n - 1),
                          depth + 1, 1, flattened_so_far))
    ELSE setitem(flattened_so_far, current_prefix, leaf_str(obj))

\* the empty dict
EmptyDict == [k \in {} |-> PyNone]

\* self.flatten_json(nested_json, prefix)
flatten_json(self, json, current_prefix) ==
    Return(PyDict(_flatten(self, json, current_prefix, 0, 1, EmptyDict)))

---------------------------------------------------------------------------
(* Files: open(file_path, 'r', encoding=...) and json.load *)

\* a regular file holding the JSON text of document, a mapping, with one more
\* entry, "source", whose value is a str literal of the bytes source (no such
\* entry where source is empty); NotJson for a text that is no JSON at all
File(document, source) == [kind |-> "file", document |-> document, source |-> source]
NotJson == [t |-> "notjson"]
Directory == [kind |-> "dir"]

\* the character of a code point
Chr(cp) ==
    CASE cp = 34 -> "\""
      [] cp = 97 -> "a"
      [] cp = 169 -> "U+00A9"
      [] cp = 195 -> "U+00C3"
      [] cp = 233 -> "U+00E9"

\* a UTF-8 continuation byte
IsContinuation(b) == b >= 128 /\ b < 192

\* bytes.decode("utf-8"), strict: one-byte and two-byte sequences; any other
\* lead byte, or a lead byte without its continuation, is a UnicodeDecodeError
RECURSIVE decode_utf8(_)
decode_utf8(bytes) ==
    IF bytes = <<>> THEN Return(<<>>)
    ELSE IF bytes[1] < 128 THEN
        Bind(decode_utf8(Tail(bytes)), LAMBDA rest : Return(<<Chr(bytes[1])>> \o rest))
    ELSE IF bytes[1] >= 194 /\ bytes[1] < 224 /\ Len(bytes) >= 2 /\ IsContinuation(bytes[2]) THEN
        Bind(decode_utf8(Tail(Tail(bytes))),
             LAMBDA rest : Return(<<Chr((bytes[1] - 192) * 64 + (bytes[2] - 128))>> \o rest))
    ELSE Raise("UnicodeDecodeError")

\* bytes.decode("latin-1"): every byte is the character of that code point
decode_latin1(bytes) == Return([i \in 1..Len(bytes) |-> Chr(bytes[i])])

\* file.read() under an encoding
read(file, encoding) ==
    IF encoding = "utf-8" THEN decode_utf8(file.source) ELSE decode_latin1(file.source)

\* json.loads of the text: a text that is no JSON, or whose str literal holds
\* a bare double quote, is a JSONDecodeError
json_loads(document, chars) ==
    IF document = NotJson \/ \E i \in 1..Len(chars) : chars[i] = "\""
    THEN Raise("JSONDecodeError")
    ELSE IF chars = <<>> THEN Return(document)
    ELSE Return(PyDict(("source" :> PyStr(chars)) @@ document.d))

\* with open(file_path, 'r', encoding=encoding) as file: json.load(file)
json_load(file, encoding) ==
    IF file.kind = "dir" THEN Raise("IsADirectoryError")
    ELSE Bind(read(file, encoding), LAMBDA chars : json_loads(file.document, chars))

\* the document loaded as it would be without the UnicodeDecodeError handler
load_utf8_only(file) == json_load(file, "utf-8")

\* except UnicodeDecodeError: the file is opened again as Latin-1
retried(file, first) ==
    IF first = Raise("UnicodeDecodeError") THEN json_load(file, "latin-1") ELSE first

\* lines 240-246: UTF-8 first, Latin-1 when that raises UnicodeDecodeError
load(file) == retried(file, json_load(file, "utf-8"))

---------------------------------------------------------------------------
(* batch_flatten_json *)

\* what one pass of the for loop adds to flattened_documents, processed_count
\* and error_count
Counted(docs, processed, errors) ==
    [docs |-> docs, processed |-> processed, errors |-> errors]

\* lines 260-265, as they would be if the records were appended one at a
\* time and the last one were lost
flattened_partly(flat_docs) ==
    IF Truthy(flat_docs)
    THEN Return(Counted(SubSeq(flat_docs.items, 1, Len(flat_docs.items) - 1), 1, 0))
    ELSE Return(Counted(<<>>, 0, 1))

\* lines 260-265, as they would be if a failed flattening counted as nothing
flattened_or_skipped(flat_docs) ==
    IF Truthy(flat_docs) THEN Return(Counted(flat_docs.items, 1, 0))
    ELSE Return(Counted(<<>>, 0, 0))

\* lines 260-265: all records and one success, or no record and one error
flattened_or_not(flat_docs) ==
    IF Truthy(flat_docs) THEN Return(Counted(flat_docs.items, 1, 0))
    ELSE Return(Counted(<<>>, 0, 1))

\* lines 248-265, once the file is loaded
validated_then_flattened(self, document_json, only) ==
    Bind(validate_document_structure(self, document_json), LAMBDA valid :
        IF ~valid THEN Return(Counted(<<>>, 0, 1))
        ELSE IF only THEN Return(Counted(<<>>, 1, 0))
        ELSE Bind(flatten_for_ai_search(self, document_json), flattened_or_not))

\* the try block of the loop body (lines 231-265) for the file at path
try_body(self, files, path, only) ==
    IF path \notin DOMAIN files THEN Return(Counted(<<>>, 0, 1))
    ELSE Bind(load(files[path]),
              LAMBDA document_json : validated_then_flattened(self, document_json, only))

\* the loop body as it would be without the two except clauses
loop_body_uncaught(self, files, path, only) == try_body(self, files, path, only)

\* the loop body (lines 230-272): json.JSONDecodeError and every other
\* Exception count as one error
loop_body(self, files, path, only) ==
    Except(try_body(self, files, path, only), Counted(<<>>, 0, 1))

\* lines 274-280: the success rate is logged, a division by
\* processed_count + error_count, and the list is returned
summary(docs, processed, errors) ==
    IF processed + errors = 0 THEN Raise("ZeroDivisionError")
    ELSE Return(PyList(docs))

---------------------------------------------------------------------------
(* validate_flattened_document *)

\* `field in flat_document`: membership for a dict, TypeError for None and
\* for a number, False for a list or a str that does not hold the field's name
field_in(field, flat_doc) ==
    CASE flat_doc.t = "dict" -> Return(field \in DOMAIN flat_doc.d)
      [] flat_doc.t \in {"list", "str"} -> Return(FALSE)
      [] OTHER -> Raise("TypeError")

\* common_fields as they would be with content among them
common_fields_with_content ==
    {"@search.action", "id", "transaction_key", "request_id", "sha256",
     "created", "duration", "channels", "Filename", "videolink", "content"}

\* the fields every flattened record must have
common_fields ==
    {"@search.action", "id", "transaction_key", "request_id", "sha256",
     "created", "duration", "channels", "Filename", "videolink"}

\* the fields a chunk record must have
chunk_fields ==
    {"parentDocId", "speaker", "start_offset", "end_offset", "start_at", "end_at", "text"}

\* isinstance(v, str)
isinstance_str(v) == v.t = "str"

\* the number test as it would be if it let a str pass
isinstance_number_or_str(v) == v.t \in {"int", "float", "bool", "str"}

\* isinstance(v, (int, float)); bool is a subclass of int
isinstance_number(v) == v.t \in {"int", "float", "bool"}

\* the checks on a record that has parentDocId
validate_chunk_record(flat_doc) ==
    IF \E field \in chunk_fields : ~field_in(field, flat_doc).val THEN Return(FALSE)
    ELSE IF ~isinstance_str(flat_doc.d["text"]) THEN Return(FALSE)
    ELSE IF ~isinstance_number(flat_doc.d["start_offset"]) THEN Return(FALSE)
    ELSE IF ~isinstance_number(flat_doc.d["end_offset"]) THEN Return(FALSE)
    ELSE IF ~isinstance_number(flat_doc.d["speaker"]) THEN Return(FALSE)
    ELSE Return(TRUE)

\* the body of the try block
validate_flattened_body(self, flat_doc) ==
    Bind(field_in("flattened_transcript", flat_doc), LAMBDA is_file_doc :
    Bind(field_in("parentDocId", flat_doc), LAMBDA is_chunk_doc :
    IF \E field \in common_fields : ~field_in(field, flat_doc).val THEN Return(FALSE)
    ELSE IF ~isinstance_str(flat_doc.d["id"]) \/ ~Truthy(flat_doc.d["id"])
         THEN Return(FALSE)
    ELSE IF is_file_doc /\ ~isinstance_str(flat_doc.d["flattened_transcript"])
         THEN Return(FALSE)
    ELSE IF is_chunk_doc THEN validate_chunk_record(flat_doc)
    ELSE Return(TRUE)))

\* try: ... except Exception: return False
validate_flattened_document(self, flat_doc) ==
    Except(validate_flattened_body(self, flat_doc), FALSE)

---------------------------------------------------------------------------
(* get_document_statistics *)

\* x + y and x - y, as int where both are int and as float otherwise;
\* TypeError unless both are numbers
py_arith(x, y, sign) ==
    IF ~isinstance_number(x) \/ ~isinstance_number(y) THEN Raise("TypeError")
    ELSE LET millis(v) == CASE v.t = "int" -> v.n * 1000
                            [] v.t = "float" -> v.m
                            [] v.t = "bool" -> IF v.b THEN 1000 ELSE 0
             result == millis(x) + sign * millis(y)
         IN  IF x.t = "float" \/ y.t = "float" THEN Return(PyFloat(result))
             ELSE Return(PyInt(result \div 1000))

\* the greatest common divisor of two naturals
RECURSIVE Gcd(_, _)
Gcd(a, b) == IF b = 0 THEN a ELSE Gcd(b, a % b)

\* x / n for a number x and a positive int n: always a float; a quotient that
\* is no whole number of thousandths is held as the reduced fraction m / over
py_truediv(x, n) ==
    LET m == IF x.t = "int" THEN x.n * 1000 ELSE x.m
        g == Gcd(IF m < 0 THEN -m ELSE m, n)
    IN  IF m % n = 0 THEN PyFloat(m \div n)
        ELSE [t |-> "float", m |-> m \div g, over |-> n \div g]

\* doc.get(field, default)
get_or(doc, field, default) ==
    IF field \in DOMAIN doc.d THEN doc.d[field] ELSE default

\* what a set keeps of a value: equal numbers are one element whatever
\* their type; TypeError for a list or a dict, which cannot be hashed
hashed(v) ==
    CASE v.t \in {"list", "dict"} -> Raise("TypeError")
      [] v.t = "int" -> Return(PyFloat(v.n * 1000))
      [] v.t = "bool" -> Return(PyFloat(IF v.b THEN 1000 ELSE 0))
      [] OTHER -> Return(v)

\* len(set(doc.get(field, '') for doc in docs))
count_distinct(docs, field) ==
    LET elements == {hashed(get_or(docs[i], field, PyStr(<<>>))) : i \in 1..Len(docs)}
    IN  IF \E e \in elements : e.kind = "raise" THEN Raise("TypeError")
        ELSE Return(PyInt(Cardinality(elements)))

\* len(v): TypeError for None and for a number
py_len(v) ==
    CASE v.t = "str" -> Return(Len(v.s))
      [] v.t = "list" -> Return(Len(v.items))
      [] v.t = "dict" -> Return(Cardinality(DOMAIN v.d))
      [] OTHER -> Raise("TypeError")

\* sum(len(doc.get('text', '')) for doc in docs), from position i on
RECURSIVE total_text_length(_, _)
total_text_length(docs, i) ==
    IF i > Len(docs) THEN Return(PyInt(0))
    ELSE Bind(py_len(get_or(docs[i], "text", PyStr(<<>>))), LAMBDA length :
         Bind(total_text_length(docs, i + 1), LAMBDA rest :
         Return(PyInt(length + rest.n))))

\* the loop that adds end - start of every chunk record to total_duration,
\* from position i on
RECURSIVE total_duration(_, _, _)
total_duration(docs, i, total) ==
    IF i > Len(docs) THEN Return(total)
    ELSE Bind(py_arith(get_or(docs[i], "end_offset", PyInt(0)),
                       get_or(docs[i], "start_offset", PyInt(0)), -1), LAMBDA span :
         Bind(py_arith(total, span, 1), LAMBDA sum :
         total_duration(docs, i + 1, sum)))

\* [doc for doc in flat_documents if field in doc]
RECURSIVE docs_with(_, _, _)
docs_with(field, flat_docs, i) ==
    IF i > Len(flat_docs) THEN Return(<<>>)
    ELSE Bind(field_in(field, flat_docs[i]), LAMBDA has :
         Bind(docs_with(field, flat_docs, i + 1), LAMBDA rest :
         Return(IF has THEN <<flat_docs[i]>> \o rest ELSE rest)))

\* the average as it would be if it were the total
avg_duration_undivided(total, n) == total

\* total_duration / len(chunk_docs) if chunk_docs else 0
avg_duration(total, n) == IF n > 0 THEN py_truediv(total, n) ELSE PyInt(0)

\* the statements after the test for an empty batch
statistics_body(self, flat_docs) ==
    Bind(docs_with("flattened_transcript", flat_docs, 1), LAMBDA file_docs :
    Bind(docs_with("parentDocId", flat_docs, 1), LAMBDA chunks :
    Bind(count_distinct(chunks, "parentDocId"), LAMBDA unique_parent_docs :
    Bind(total_text_length(chunks, 1), LAMBDA text_length :
    Bind(count_distinct(chunks, "speaker"), LAMBDA unique_speakers :
    Bind(total_duration(chunks, 1, PyInt(0)), LAMBDA total :
    Return(PyDict(
        [total_documents |-> PyInt(Len(flat_docs)),
         file_documents |-> PyInt(Len(file_docs)),
         chunk_documents |-> PyInt(Len(chunks)),
         unique_parent_docs |-> unique_parent_docs,
         total_text_length |-> text_length,
         unique_speakers |-> unique_speakers,
         avg_chunk_duration |-> avg_duration(total, Len(chunks)),
         total_duration |-> total]))))))))

\* get_document_statistics(flat_documents) for a list: the empty batch has
\* total_documents alone, and every exception gives the empty dict
get_document_statistics(self, flat_docs) ==
    IF flat_docs = <<>> THEN Return(PyDict([total_documents |-> PyInt(0)]))
    ELSE Except(statistics_body(self, flat_docs), PyDict(EmptyDict))

---------------------------------------------------------------------------
(* The input documents *)

\* marks a key the document does not have
Absent == [t |-> "absent"]

\* the one-entry mapping key -> value, or the empty mapping for an absent key
Field(key, value) ==
    IF value.t = "absent" THEN [k \in {} |-> PyNone] ELSE (key :> value)

\* "2024-02-28T23:59:58": two seconds before a leap day
CreatedLeap ==
    <<"2", "0", "2", "4", "-", "0", "2", "-", "2", "8", "T",
      "2", "3", ":", "5", "9", ":", "5", "8">>

\* "2024-02-28 23:59:58+05:30": a blank separator and a UTC offset
CreatedZoned ==
    <<"2", "0", "2", "4", "-", "0", "2", "-", "2", "8", " ",
      "2", "3", ":", "5", "9", ":", "5", "8", "+", "0", "5", ":", "3", "0">>

\* "9999-12-31T23:59:59Z": the last second datetime can hold
CreatedMax ==
    <<"9", "9", "9", "9", "-", "1", "2", "-", "3", "1", "T",
      "2", "3", ":", "5", "9", ":", "5", "9", "Z">>

\* "0001-01-01": a date alone, the first day datetime can hold
CreatedMin == <<"0", "0", "0", "1", "-", "0", "1", "-", "0", "1">>

\* the values of metadata.created: ISO strings with no, one and two trailing
\* "Z", a str that is no date, and a value that is no str
CreatedOptions ==
    {PyStr(CreatedLeap), PyStr(CreatedLeap \o <<"Z">>),
     PyStr(CreatedLeap \o <<"Z", "Z">>), PyStr(CreatedZoned),
     PyStr(CreatedMax), PyStr(CreatedMin), PyStr(<<"n", "/", "a">>),
     PyInt(20240228)}

\* a metadata mapping with all nine fields
FullMeta(created) ==
    [transaction_key |-> PyStr(<<"t", "k">>), request_id |-> PyStr(<<"r", "q">>),
     sha256 |-> PyStr(<<"a", "b", "c">>), created |-> created,
     duration |-> PyFloat(12500), channels |-> PyInt(2),
     Filename |-> PyStr(<<"a", ".", "m", "p", "4">>),
     videolink |-> PyStr(<<"u", "r", "l">>),
     flattened_transcript |-> PyStr(<<"h", "i", " ", "y", "o">>)]

\* m without the key k
Without(m, k) == [x \in DOMAIN m \ {k} |-> m[x]]

\* the values of the metadata key: absent, no mapping, complete, or lacking a field
MetadataOptions ==
    {Absent, PyStr(<<"m">>)}
    \cup {PyDict(FullMeta(c)) : c \in CreatedOptions}
    \cup {PyDict(Without(FullMeta(PyStr(CreatedLeap)), k)) : k \in {"sha256", "created"}}

\* the values of the id key: absent, a str, the empty str, an int
IdOptions == {Absent, PyStr(<<"d", "1">>), PyStr(<<>>), PyInt(7)}

\* one element of transcript_chunks: two well-formed chunks (one crosses two
\* midnights, the other starts later, at a float offset, and ends before it starts),
\* a chunk without text, a chunk that is no mapping, a chunk whose start is
\* no number, a chunk whose text is no str
ChunkOptions ==
    {PyDict([speaker |-> PyInt(0), start |-> PyInt(0), end |-> PyInt(86402),
             text |-> PyStr(<<" ", "h", "i", " ">>)]),
     PyDict([speaker |-> PyInt(1), start |-> PyFloat(5500), end |-> PyInt(-1),
             text |-> PyStr(<<"\t", "y", " ", "o", "\n">>)]),
     PyDict([speaker |-> PyInt(0), start |-> PyInt(0), end |-> PyInt(5)]),
     PyStr(<<"x">>),
     PyDict([speaker |-> PyInt(0), start |-> PyStr(<<"0">>), end |-> PyInt(5),
             text |-> PyStr(<<"a">>)]),
     PyDict([speaker |-> PyNone, start |-> PyInt(0), end |-> PyInt(5),
             text |-> PyInt(3)])}

\* the sequences over S of length at most n
RECURSIVE SeqsUpTo(_, _)
SeqsUpTo(S, n) ==
    IF n = 0 THEN {<<>>}
    ELSE LET shorter == SeqsUpTo(S, n - 1) IN
         shorter \cup {Append(q, x) : q \in shorter, x \in S}

\* the values of the transcript_chunks key: absent, no list, a list of chunks
ChunksOptions ==
    {Absent, PyStr(<<"c">>)}
    \cup {PyList(q) : q \in SeqsUpTo(ChunkOptions, MaxChunks)}

\* the inputs that are no mapping: None, an int, a list and a str that both
\* contain "id" and "metadata"
NonMappings ==
    {PyNone, PyInt(3),
     PyList(<<PyStr(KeyChars("id")), PyStr(KeyChars("metadata"))>>),
     PyStr(KeyChars("id") \o KeyChars("metadata"))}

Documents ==
    {PyDict(Field("id", i) @@ Field("metadata", m) @@ Field("transcript_chunks", c)) :
        i \in IdOptions, m \in MetadataOptions, c \in ChunksOptions}
    \cup NonMappings

---------------------------------------------------------------------------
(* The calls a client makes on one input document *)

\* what a caller sees of a call that has not been made
NotCalled == [called |-> FALSE]

\* what a caller sees of a call: its return value, or that it raised
Seen(outcome) ==
    IF outcome.kind = "raise" THEN [called |-> TRUE, raised |-> TRUE]
    ELSE [called |-> TRUE, raised |-> FALSE, ret |-> outcome.val]

\* no call made on any instance
NoneCalled == [f \in {1, 2} |-> NotCalled]

\* no transcript document is being worked on
ProjectorIdle ==
    /\ raw = PyNone
    /\ clock = 0
    /\ validated = NotCalled
    /\ returned = NoneCalled
    /\ escaped = FALSE

\* no _sanitize_key call is being made
SanitizeIdle ==
    /\ key_given = <<>>
    /\ key_returned = NoneCalled

\* no flatten_json call is being made
JsonIdle ==
    /\ nested_json = PyNone
    /\ prefix = <<>>
    /\ json_returned = NoneCalled

\* no batch_flatten_json call is being made
BatchIdle ==
    /\ disk = <<>>
    /\ json_files = <<>>
    /\ validate_only = FALSE
    /\ pc = "idle"
    /\ file_path = 0
    /\ flattened_documents = <<>>
    /\ processed_count = 0
    /\ error_count = 0
    /\ batch_returned = NotCalled

\* no call on flattened records is being made
RecordsIdle ==
    /\ flat_document = PyNone
    /\ flat_validated = NotCalled
    /\ flat_documents = <<>>
    /\ statistics = NotCalled

\* no thread runs
ThreadsIdle ==
    /\ calls = <<>>
    /\ frames = <<>>
    /\ heap = <<>>
    /\ thread_returned = <<>>

\* no batch_ingest_preprocessed call is being made
IngestIdle ==
    /\ file_paths = <<>>
    /\ source_info = PyNone
    /\ ingest_pc = "idle"
    /\ ingest_index = 0
    /\ ingest_document = PyNone
    /\ documents = <<>>
    /\ ingest_returned = NotCalled

\* nothing but JSONFlattener calls on documents, keys, values or files is made
OthersIdle == RecordsIdle /\ ThreadsIdle /\ IngestIdle

Init ==
    /\ raw \in Documents
    /\ flatteners = <<NewFlattener(<<"_">>, 10), NewFlattener(<<".">>, 2)>>
    /\ clock = 0
    /\ validated = NotCalled
    /\ returned = [f \in {1, 2} |-> NotCalled]
    /\ escaped = FALSE
    /\ SanitizeIdle
    /\ JsonIdle
    /\ BatchIdle
    /\ OthersIdle

\* time passes between two calls
Tick ==
    /\ clock < MaxClock
    /\ clock' = clock + 1
    /\ UNCHANGED <<raw, flatteners, validated, returned, escaped>>
    /\ UNCHANGED <<sanitize_vars, json_vars, batch_vars, other_vars>>

\* the caller of validate_document_structure gets seen
ValidateReturns(seen) ==
    /\ validated' = seen
    /\ escaped' = (escaped \/ seen.raised)
    /\ UNCHANGED <<raw, flatteners, clock, returned>>
    /\ UNCHANGED <<sanitize_vars, json_vars, batch_vars, other_vars>>

\* flatteners[f].validate_document_structure(raw)
Validate(f) ==
    ValidateReturns(Seen(validate_document_structure(flatteners[f], raw)))

\* the return as it would be if the method took transcript_chunks out of raw
\* (raw.pop) instead of reading it
FlattenReturns_popping(f, seen) ==
    /\ returned' = [returned EXCEPT ![f] = seen]
    /\ escaped' = (escaped \/ seen.raised)
    /\ raw' = IF raw.t = "dict" THEN PyDict(Without(raw.d, "transcript_chunks")) ELSE raw
    /\ UNCHANGED <<flatteners, clock, validated>>
    /\ UNCHANGED <<sanitize_vars, json_vars, batch_vars, other_vars>>

\* the caller of flatteners[f].flatten_for_ai_search gets seen
FlattenReturns(f, seen) ==
    /\ returned' = [returned EXCEPT ![f] = seen]
    /\ escaped' = (escaped \/ seen.raised)
    /\ UNCHANGED <<raw, flatteners, clock, validated>>
    /\ UNCHANGED <<sanitize_vars, json_vars, batch_vars, other_vars>>

\* flatteners[f].flatten_for_ai_search(raw)
Flatten(f) ==
    FlattenReturns(f, Seen(flatten_for_ai_search(flatteners[f], raw)))

Next ==
    \/ Tick
    \/ \E f \in DOMAIN flatteners : Validate(f)
    \/ \E f \in DOMAIN flatteners : Flatten(f)

Spec == Init /\ [][Next]_vars

---------------------------------------------------------------------------
(* The _sanitize_key calls a client makes on one key *)

\* the characters the keys are written in
KeyAlphabet == {"x", "A", "1", " ", "-", ".", "_"}

\* the keys: every str over the alphabet of at most MaxKeyLen characters
Keys == SeqsUpTo(KeyAlphabet, MaxKeyLen)

SanitizeInit ==
    /\ flatteners = <<NewFlattener(<<"_">>, 10), NewFlattener(<<".">>, 2)>>
    /\ key_given \in Keys
    /\ key_returned = NoneCalled
    /\ ProjectorIdle
    /\ JsonIdle
    /\ BatchIdle
    /\ OthersIdle

\* flatteners[f]._sanitize_key(key_given)
SanitizeKey(f) ==
    /\ key_returned' =
           [key_returned EXCEPT ![f] = Seen(Return(PyStr(_sanitize_key(flatteners[f], key_given))))]
    /\ UNCHANGED <<flatteners, key_given, projector_vars, json_vars, batch_vars, other_vars>>

SanitizeNext == \E f \in DOMAIN flatteners : SanitizeKey(f)

SanitizeSpec == SanitizeInit /\ [][SanitizeNext]_vars

---------------------------------------------------------------------------
(* The flatten_json calls a client makes on one value *)

\* the scalars
Leaves ==
    {PyNone, PyBool(TRUE), PyInt(1), PyInt(2), PyFloat(-1500), PyStr(<<"1", "x">>)}

\* the keys of the mappings
JsonKeys ==
    {<<"a">>, <<"b">>, <<"a", "b">>, <<"a", " ", "b">>, <<"a", "_", "b">>,
     <<"a", ".", "b">>, <<"a", "-", "b">>, <<"1", "x">>, <<>>}

\* the values with leaves at depth 0 and 1: a scalar, a list of scalars, a
\* mapping with no or one scalar entry
Shallow ==
    Leaves
    \cup {PyList(q) : q \in SeqsUpTo(Leaves, MaxItems)}
    \cup {PyDictItems(<<>>)}
    \cup {PyDictItems(<< <<k, v>> >>) : k \in JsonKeys, v \in Leaves}

\* the values of a mapping with two entries
PairValues ==
    {PyInt(1), PyInt(2), PyDictItems(<< <<(<<"b">>), PyInt(1)>> >>), PyList(<<PyInt(2)>>)}

\* the mappings with two entries
Pairs ==
    UNION {{PyDictItems(<< <<k1, v1>>, <<k2, v2>> >>) :
                k2 \in JsonKeys \ {k1}, v1 \in PairValues, v2 \in PairValues} :
           k1 \in JsonKeys}

\* a shallow value under at most n mapping keys "a" and sequence positions 0
RECURSIVE Nested(_)
Nested(n) ==
    IF n = 0 THEN Shallow
    ELSE LET inner == Nested(n - 1) IN
         inner \cup {PyDictItems(<< <<(<<"a">>), v>> >>) : v \in inner}
               \cup {PyList(<<v>>) : v \in inner}

\* the scalar 2 under n further sequence positions 0 or mapping keys "b"
RECURSIVE Sunk(_, _)
Sunk(n, as_list) ==
    IF n = 0 THEN PyInt(2)
    ELSE IF as_list THEN PyList(<<Sunk(n - 1, as_list)>>)
    ELSE PyDictItems(<< <<(<<"b">>), Sunk(n - 1, as_list)>> >>)

\* the values with a scalar at depth 1 beside the scalar 2 at depth
\* MaxNesting + 1 or MaxNesting + 2, in either order
Mixed ==
    UNION {{PyList(<<l, Sunk(n, TRUE)>>),
            PyList(<<Sunk(n, FALSE), l>>),
            PyDictItems(<< <<(<<"a">>), l>>, <<(<<"b">>), Sunk(n, FALSE)>> >>),
            PyDictItems(<< <<(<<"b">>), Sunk(n, TRUE)>>, <<(<<"a">>), l>> >>)} :
           l \in {PyNone, PyInt(1)}, n \in {MaxNesting, MaxNesting + 1}}

JsonValues == Nested(MaxNesting) \cup Pairs \cup Mixed

JsonInit ==
    /\ flatteners = <<NewFlattener(<<"_">>, 10), NewFlattener(<<".">>, 2)>>
    /\ nested_json \in JsonValues
    /\ prefix \in {<<>>, <<"p">>}
    /\ json_returned = NoneCalled
    /\ ProjectorIdle
    /\ SanitizeIdle
    /\ BatchIdle
    /\ OthersIdle

\* flatteners[f].flatten_json(nested_json, prefix)
FlattenJson(f) ==
    /\ json_returned' =
           [json_returned EXCEPT ![f] = Seen(flatten_json(flatteners[f], nested_json, prefix))]
    /\ UNCHANGED <<flatteners, nested_json, prefix, projector_vars, sanitize_vars, batch_vars, other_vars>>

JsonNext == \E f \in DOMAIN flatteners : FlattenJson(f)

JsonSpec == JsonInit /\ [][JsonNext]_vars

---------------------------------------------------------------------------
(* What the claims speak of *)

\* the last flatten_for_ai_search call of instance f returned a record list
Flattened(f) ==
    returned[f].called /\ ~returned[f].raised /\ returned[f].ret.t = "list"

\* the records that call returned
Records(f) == returned[f].ret.items

\* the chunks of the input document
InputChunks == raw.d["transcript_chunks"].items

\* the metadata mapping of the input document
InputMeta == raw.d["metadata"].d

Instances == DOMAIN returned

\* a record carrying flattened_transcript and no parentDocId
IsFileRecord(record) ==
    /\ record.t = "dict"
    /\ "flattened_transcript" \in DOMAIN record.d
    /\ "parentDocId" \notin DOMAIN record.d

\* the decimal numeral of a position below 100
Numeral(i) ==
    IF i < 10 THEN <<DigitChars[i + 1]>>
    ELSE <<DigitChars[(i \div 10) + 1], DigitChars[(i % 10) + 1]>>

\* a number in thousandths
Millis(v) == IF v.t = "int" THEN v.n * 1000 ELSE v.m

---------------------------------------------------------------------------
(* C1 *)

\* C1: a call that returns a list returns exactly one record more than the
\* input has transcript chunks, and the first record, and no other, is the
\* file record (it carries flattened_transcript and no parentDocId).
C1_RecordCount ==
    \A f \in Instances :
        (returned[f].called /\ ~returned[f].raised /\ returned[f].ret # PyNone) =>
            /\ returned[f].ret.t = "list"
            /\ raw.t = "dict"
            /\ "transcript_chunks" \in DOMAIN raw.d
            /\ raw.d["transcript_chunks"].t = "list"
            /\ Len(Records(f)) = Len(InputChunks) + 1
            /\ IsFileRecord(Records(f)[1])
            /\ \A k \in 2..Len(Records(f)) : ~IsFileRecord(Records(f)[k])

\* a document with two chunks has been flattened to three records
C1_Witness ==
    \E f \in Instances :
        Flattened(f) /\ Len(InputChunks) = 2 /\ Len(Records(f)) = 3

---------------------------------------------------------------------------
(* C2 *)

\* C2: in a returned list the record at position i+1 (0-based) has the file
\* record's id as its parentDocId, and as its id the text of the file id
\* followed by "_" and the numeral of i.
C2_ChunkIds ==
    \A f \in Instances :
        Flattened(f) =>
            \A i \in 0..(Len(Records(f)) - 2) :
                /\ Records(f)[i + 2].d["parentDocId"] = Records(f)[1].d["id"]
                /\ Records(f)[i + 2].d["id"] =
                       PyStr(py_str(Records(f)[1].d["id"]) \o <<"_">> \o Numeral(i))

\* the second chunk of the document "d1" has got the id "d1_1"
C2_Witness ==
    \E f \in Instances :
        /\ Flattened(f)
        /\ Len(Records(f)) = 3
        /\ Records(f)[3].d["id"] = PyStr(<<"d", "1", "_", "1">>)
        /\ Records(f)[3].d["parentDocId"] = PyStr(<<"d", "1">>)

---------------------------------------------------------------------------
(* C3 *)

\* t is s without its leading and trailing whitespace: s is whitespace, t,
\* whitespace, and t neither starts nor ends with whitespace
IsStripOf(t, s) ==
    \E a \in 0..Len(s), b \in 0..Len(s) :
        /\ a + b <= Len(s)
        /\ t = SubSeq(s, a + 1, Len(s) - b)
        /\ \A k \in 1..a : s[k] \in {" ", "\t", "\n"}
        /\ \A k \in (Len(s) - b + 1)..Len(s) : s[k] \in {" ", "\t", "\n"}
        /\ t # <<>> => (t[1] \notin {" ", "\t", "\n"} /\ t[Len(t)] \notin {" ", "\t", "\n"})

\* C3: the record at output position i+1 carries the speaker, the start (as
\* start_offset) and the end (as end_offset) of input chunk i, and that
\* chunk's text stripped of leading and trailing whitespace, whatever the
\* order and the overlap of the chunks' offsets.
C3_InputOrder ==
    \A f \in Instances :
        Flattened(f) =>
            \A i \in 1..Len(InputChunks) :
                /\ Records(f)[i + 1].d["speaker"] = InputChunks[i].d["speaker"]
                /\ Records(f)[i + 1].d["start_offset"] = InputChunks[i].d["start"]
                /\ Records(f)[i + 1].d["end_offset"] = InputChunks[i].d["end"]
                /\ Records(f)[i + 1].d["text"].t = "str"
                /\ IsStripOf(Records(f)[i + 1].d["text"].s, InputChunks[i].d["text"].s)

\* two chunks have been flattened of which the first starts after the
\* second, ends before it starts, and has whitespace around its text
C3_Witness ==
    \E f \in Instances :
        /\ Flattened(f)
        /\ Len(InputChunks) = 2
        /\ Millis(InputChunks[1].d["start"]) > Millis(InputChunks[2].d["start"])
        /\ Millis(InputChunks[1].d["end"]) < Millis(InputChunks[1].d["start"])
        /\ Records(f)[2].d["text"] # InputChunks[1].d["text"]

---------------------------------------------------------------------------
(* C4 *)

\* the metadata fields that are not the transcript
NonTranscriptFields ==
    {"transaction_key", "request_id", "sha256", "created", "duration",
     "channels", "Filename", "videolink"}

\* C4: in a returned list the file record carries the input id, the action
\* "upload" and the nine metadata fields with the input's values; every chunk
\* record carries the file record's values of the eight non-transcript
\* metadata fields and no flattened_transcript.
C4_MetadataCopied ==
    \A f \in Instances :
        Flattened(f) =>
            /\ Records(f)[1].d["id"] = raw.d["id"]
            /\ Records(f)[1].d["@search.action"] = PyStr(<<"u", "p", "l", "o", "a", "d">>)
            /\ \A k \in NonTranscriptFields \cup {"flattened_transcript"} :
                   /\ k \in DOMAIN Records(f)[1].d
                   /\ Records(f)[1].d[k] = InputMeta[k]
            /\ \A j \in 2..Len(Records(f)) :
                   /\ \A k \in NonTranscriptFields :
                          /\ k \in DOMAIN Records(f)[j].d
                          /\ Records(f)[j].d[k] = Records(f)[1].d[k]
                   /\ "flattened_transcript" \notin DOMAIN Records(f)[j].d

\* a document whose created ends with "Z" has been flattened with a chunk
C4_Witness ==
    \E f \in Instances :
        /\ Flattened(f)
        /\ Len(Records(f)) >= 2
        /\ InputMeta["created"] = PyStr(CreatedLeap \o <<"Z">>)
        /\ Records(f)[2].d["created"] = PyStr(CreatedLeap \o <<"Z">>)

---------------------------------------------------------------------------
(* C5 *)

\* the day after a calendar date
NextDay(date) ==
    IF date.day < DaysInMonth(date.year, date.month)
    THEN [year |-> date.year, month |-> date.month, day |-> date.day + 1]
    ELSE IF date.month < 12
    THEN [year |-> date.year, month |-> date.month + 1, day |-> 1]
    ELSE [year |-> date.year + 1, month |-> 1, day |-> 1]

\* the day before a calendar date
PrevDay(date) ==
    IF date.day > 1
    THEN [year |-> date.year, month |-> date.month, day |-> date.day - 1]
    ELSE IF date.month > 1
    THEN [year |-> date.year, month |-> date.month - 1,
          day |-> DaysInMonth(date.year, date.month - 1)]
    ELSE [year |-> date.year - 1, month |-> 12, day |-> 31]

\* the date n days after (before, for n < 0) a calendar date, day by day
RECURSIVE ShiftDays(_, _)
ShiftDays(date, n) ==
    IF n = 0 THEN date
    ELSE IF n > 0 THEN ShiftDays(NextDay(date), n - 1)
    ELSE ShiftDays(PrevDay(date), n + 1)

\* the timestamp `millis` thousandths of a second after base, counted on the
\* calendar: the time of day with the days carried over one by one
Later(base, millis) ==
    LET total == (base.hour * 3600 + base.minute * 60 + base.second) * 1000 + millis
        ofDay == total % 86400000
        date == ShiftDays([year |-> base.year, month |-> base.month, day |-> base.day],
                          total \div 86400000)
    IN  [year |-> date.year, month |-> date.month, day |-> date.day,
         hour |-> ofDay \div 3600000, minute |-> (ofDay % 3600000) \div 60000,
         second |-> (ofDay % 60000) \div 1000,
         microsecond |-> (ofDay % 1000) * 1000, tz |-> base.tz]

\* the created timestamp of the input document, parsed
InputCreated == fromisoformat(py_rstrip(InputMeta["created"].s, {"Z"})).val

\* the start_at and end_at of every chunk record of a return value
Instants(ret) ==
    IF ret.t = "list"
    THEN [some |-> TRUE,
          at |-> [k \in 1..(Len(ret.items) - 1) |->
                     <<ret.items[k + 1].d["start_at"], ret.items[k + 1].d["end_at"]>>]]
    ELSE [some |-> FALSE, at |-> <<>>]

\* s ends with "Z"
EndsWithZ(s) == s # <<>> /\ s[Len(s)] = "Z"

\* s with a trailing "Z" removed, or added when it has none
ToggleZ(s) == IF EndsWithZ(s) THEN SubSeq(s, 1, Len(s) - 1) ELSE s \o <<"Z">>

\* the input document with another created
WithCreated(created) ==
    PyDict([raw.d EXCEPT !["metadata"] =
                PyDict([InputMeta EXCEPT !["created"] = PyStr(created)])])

\* C5: every chunk record's start_at (end_at) is the created timestamp moved
\* by the chunk's start (end) on the calendar, printed in ISO format with "Z"
\* appended; and the input that differs only in that its created has, or
\* has not, one trailing "Z" gives the same start_at and end_at for every chunk.
C5_Timestamps ==
    \A f \in Instances :
        /\ Flattened(f) =>
               \A i \in 1..Len(InputChunks) :
                   /\ Records(f)[i + 1].d["start_at"] =
                          PyStr(isoformat(Later(InputCreated,
                                                Millis(InputChunks[i].d["start"])))
                                \o <<"Z">>)
                   /\ Records(f)[i + 1].d["end_at"] =
                          PyStr(isoformat(Later(InputCreated,
                                                Millis(InputChunks[i].d["end"])))
                                \o <<"Z">>)
        /\ ( /\ returned[f].called /\ ~returned[f].raised
             /\ raw.t = "dict" /\ "metadata" \in DOMAIN raw.d
             /\ raw.d["metadata"].t = "dict"
             /\ "created" \in DOMAIN InputMeta
             /\ InputMeta["created"].t = "str"
             /\ EndsWithZ(InputMeta["created"].s) # EndsWithZ(ToggleZ(InputMeta["created"].s)) )
           => Instants(flatten_for_ai_search(flatteners[f],
                           WithCreated(ToggleZ(InputMeta["created"].s))).val)
              = Instants(returned[f].ret)

\* "2024-02-28T23:59:58Z" has been flattened with a chunk that starts at 0
\* and ends 86402 seconds later, on the first of March of a leap year
C5_Witness ==
    \E f \in Instances :
        /\ Flattened(f)
        /\ Len(Records(f)) >= 2
        /\ InputMeta["created"] = PyStr(CreatedLeap \o <<"Z">>)
        /\ Records(f)[2].d["start_at"] = PyStr(CreatedLeap \o <<"Z">>)
        /\ Records(f)[2].d["end_at"] =
               PyStr(<<"2", "0", "2", "4", "-", "0", "3", "-", "0", "1", "T",
                       "0", "0", ":", "0", "0", ":", "0", "0", "Z">>)

---------------------------------------------------------------------------
(* C6 *)

\* C6: once validate_document_structure has returned false for the input
\* document, every flatten_for_ai_search call on it returns None: no list,
\* no record.
C6_InvalidGivesNone ==
    \A f \in Instances :
        (validated.called /\ ~validated.raised /\ validated.ret = FALSE
         /\ returned[f].called)
        => (~returned[f].raised /\ returned[f].ret = PyNone)

\* a document that only its empty id makes invalid, and that the statements
\* after the validation would turn into two records, has been refused
C6_Witness ==
    \E f \in Instances :
        /\ validated.called /\ validated.ret = FALSE
        /\ returned[f].called
        /\ project(flatteners[f], raw).kind = "return"
        /\ Len(project(flatteners[f], raw).val.items) = 2

---------------------------------------------------------------------------
(* C7 *)

\* the keys of a file record and of a chunk record
FileRecordKeys ==
    {"@search.action", "id", "flattened_transcript"} \cup NonTranscriptFields

ChunkRecordKeys ==
    {"@search.action", "id", "parentDocId", "speaker", "start_offset",
     "end_offset", "start_at", "end_at", "text"} \cup NonTranscriptFields

\* a list of one whole file record and one whole chunk record per input chunk
IsCompleteList(ret) ==
    /\ ret.t = "list"
    /\ Len(ret.items) = Len(InputChunks) + 1
    /\ ret.items[1].t = "dict" /\ DOMAIN ret.items[1].d = FileRecordKeys
    /\ \A k \in 2..Len(ret.items) :
           ret.items[k].t = "dict" /\ DOMAIN ret.items[k].d = ChunkRecordKeys

\* C7: no call lets an exception reach its caller: validate_document_structure
\* returns a boolean, and flatten_for_ai_search returns None or a complete
\* record list, whatever the input is.
C7_NothingEscapes ==
    /\ ~escaped
    /\ validated.called => (~validated.raised /\ validated.ret \in BOOLEAN)
    /\ \A f \in Instances :
           returned[f].called =>
               /\ ~returned[f].raised
               /\ returned[f].ret = PyNone \/ IsCompleteList(returned[f].ret)

\* a valid document whose second chunk has a text that is no str made the
\* try block raise AttributeError after the first chunk's record was built,
\* and the call has returned
C7_Witness ==
    \E f \in Instances :
        /\ returned[f].called
        /\ validated.called /\ validated.ret = TRUE
        /\ "transcript_chunks" \in DOMAIN raw.d
        /\ Len(InputChunks) = 2
        /\ InputChunks[2].d["text"].t # "str"
        /\ flatten_body(flatteners[f], raw) = Raise("AttributeError")

---------------------------------------------------------------------------
(* C8 *)

\* a mapping with one of the defects the validator looks for
HasDefect(document) ==
    /\ document.t = "dict"
    /\ \/ "id" \notin DOMAIN document.d
       \/ "metadata" \notin DOMAIN document.d
       \/ document.d["metadata"].t # "dict"
       \/ /\ "transcript_chunks" \in DOMAIN document.d
          /\ \/ document.d["transcript_chunks"].t # "list"
             \/ \E i \in 1..Len(document.d["transcript_chunks"].items) :
                    LET chunk == document.d["transcript_chunks"].items[i] IN
                    \/ chunk.t # "dict"
                    \/ \E field \in {"speaker", "start", "end", "text"} :
                           field \notin DOMAIN chunk.d

\* C8: validate_document_structure returns false for a document without id
\* or without metadata, with a metadata that is no mapping, with a
\* transcript_chunks that is no list, with a chunk that is no mapping, or
\* with a chunk that lacks speaker, start, end or text.
C8_RejectsDefects ==
    (validated.called /\ HasDefect(raw))
    => (~validated.raised /\ validated.ret = FALSE)

\* a document whose only defect is that its second chunk has no text has
\* been validated
C8_Witness ==
    /\ validated.called
    /\ raw.t = "dict"
    /\ {"id", "metadata", "transcript_chunks"} \subseteq DOMAIN raw.d
    /\ Truthy(raw.d["id"])
    /\ raw.d["metadata"].t = "dict"
    /\ raw.d["transcript_chunks"].t = "list"
    /\ Len(InputChunks) = 2
    /\ InputChunks[1].t = "dict"
    /\ DOMAIN InputChunks[1].d = {"speaker", "start", "end", "text"}
    /\ InputChunks[2].t = "dict"
    /\ DOMAIN InputChunks[2].d = {"speaker", "start", "end"}

---------------------------------------------------------------------------
(* C9 *)

\* id and metadata are present, metadata is a mapping, and transcript_chunks,
\* when present, is a list of mappings that each have the four chunk fields
IsWellFormed(document) ==
    /\ document.t = "dict"
    /\ "id" \in DOMAIN document.d
    /\ "metadata" \in DOMAIN document.d
    /\ document.d["metadata"].t = "dict"
    /\ "transcript_chunks" \in DOMAIN document.d =>
           /\ document.d["transcript_chunks"].t = "list"
           /\ \A i \in 1..Len(document.d["transcript_chunks"].items) :
                  LET chunk == document.d["transcript_chunks"].items[i] IN
                  /\ chunk.t = "dict"
                  /\ {"speaker", "start", "end", "text"} \subseteq DOMAIN chunk.d

\* C9 as stated: every well-formed document is accepted, whatever the values
\* of id, start, end, speaker and text are.
C9_AcceptsWhateverValues ==
    (validated.called /\ IsWellFormed(raw))
    => (~validated.raised /\ validated.ret = TRUE)

\* C9, amended: every well-formed document whose id is truthy (not None, not
\* empty, not 0) is accepted, whatever the type of the id and whatever the
\* values of start, end, speaker and text are; a well-formed document whose
\* id is falsy is rejected.
C9_AcceptsTruthyId ==
    (validated.called /\ IsWellFormed(raw))
    => (~validated.raised /\ validated.ret = Truthy(raw.d["id"]))

\* a document with an int id, a start that is a str, a text that is an int
\* and a speaker that is None has been accepted
C9_Witness ==
    /\ validated.called /\ validated.ret = TRUE
    /\ IsWellFormed(raw)
    /\ raw.d["id"].t = "int"
    /\ "transcript_chunks" \in DOMAIN raw.d
    /\ Len(InputChunks) = 2
    /\ InputChunks[1].d["start"].t = "str"
    /\ InputChunks[2].d["text"].t = "int"
    /\ InputChunks[2].d["speaker"] = PyNone

---------------------------------------------------------------------------
(* C10 *)

\* C10: all flatten_for_ai_search calls on one input document return the
\* same value, whichever instance is called, whenever, and after whatever
\* other calls.
C10_Deterministic ==
    \A f \in Instances, g \in Instances :
        (returned[f].called /\ returned[g].called) => returned[f] = returned[g]

\* both instances, which differ in separator and max_depth, have flattened
\* the document to a list with two chunk records; a validation call has been
\* made and time has passed
C10_Witness ==
    /\ \A f \in Instances : Flattened(f) /\ Len(Records(f)) = 3
    /\ flatteners[1].separator # flatteners[2].separator
    /\ flatteners[1].max_depth # flatteners[2].max_depth
    /\ validated.called
    /\ clock > 0

---------------------------------------------------------------------------
(* One batch_flatten_json call over the files of a disk *)

\* a chunk that speaks from second 0 past the second midnight
ChunkA ==
    PyDict([speaker |-> PyInt(0), start |-> PyInt(0), end |-> PyInt(86402),
            text |-> PyStr(<<" ", "h", "i", " ">>)])

\* a chunk at a float offset
ChunkB ==
    PyDict([speaker |-> PyInt(1), start |-> PyFloat(5500), end |-> PyInt(7),
            text |-> PyStr(<<"\t", "y", " ", "o", "\n">>)])

\* a transcript document of the data model
Transcript(id, created, chunks) ==
    PyDict([id |-> PyStr(id), metadata |-> PyDict(FullMeta(PyStr(created))),
            transcript_chunks |-> PyList(chunks)])

\* the bytes of "a", of U+00E9 in UTF-8, of U+00E9 in Latin-1 (no UTF-8), and
\* of U+00E9 in Latin-1 followed by a double quote
Ascii == <<97>>
Utf8 == <<195, 169>>
Latin1 == <<233>>
Latin1Quote == <<233, 34>>

\* the files on the disk, by path; gone.json is on no disk
Disk ==
    [two |-> File(Transcript(<<"d", "1">>, CreatedLeap \o <<"Z">>, <<ChunkA, ChunkB>>), Ascii),
     one |-> File(Transcript(<<"d", "1", "_", "0">>, CreatedLeap, <<ChunkB>>), Utf8),
     none |-> File(Transcript(<<"d", "0">>, CreatedZoned, <<>>), <<>>),
     latin |-> File(Transcript(<<"d", "3">>, CreatedLeap, <<ChunkA>>), Latin1),
     latin_quote |-> File(Transcript(<<"d", "4">>, CreatedLeap, <<ChunkA>>), Latin1Quote),
     latin_nometa |-> File(PyDict([id |-> PyStr(<<"d", "5">>)]), Latin1),
     nometa |-> File(PyDict([id |-> PyStr(<<"d", "6">>),
                             transcript_chunks |-> PyList(<<ChunkA>>)]), Ascii),
     notext |-> File(Transcript(<<"d", "7">>, CreatedLeap,
                                <<ChunkA, PyDict([speaker |-> PyInt(0), start |-> PyInt(0),
                                                  end |-> PyInt(5)])>>), Ascii),
     nodate |-> File(Transcript(<<"d", "8">>, <<"n", "/", "a">>, <<ChunkA>>), Ascii),
     nochunks |-> File(PyDict([id |-> PyStr(<<"d", "9">>),
                               metadata |-> PyDict(FullMeta(PyStr(CreatedLeap)))]), Ascii),
     notjson |-> File(NotJson, Ascii),
     array |-> File(PyList(<<PyStr(KeyChars("id")), PyStr(KeyChars("metadata"))>>), <<>>),
     folder |-> Directory]

\* the paths a caller passes
Paths == DOMAIN Disk \cup {"gone"}

BatchInit ==
    /\ flatteners = <<NewFlattener(<<"_">>, 10), NewFlattener(<<".">>, 2)>>
    /\ disk = Disk
    /\ json_files \in SeqsUpTo(Paths, MaxFiles)
    /\ validate_only \in BOOLEAN
    /\ pc = "for"
    /\ file_path = 1
    /\ flattened_documents = <<>>
    /\ processed_count = 0
    /\ error_count = 0
    /\ batch_returned = NotCalled
    /\ ProjectorIdle
    /\ SanitizeIdle
    /\ JsonIdle
    /\ OthersIdle

\* the loop body has run for json_files[file_path] with this outcome: the
\* locals are updated, or the exception leaves the call
Visited(outcome) ==
    IF outcome.kind = "raise"
    THEN /\ pc' = "done"
         /\ batch_returned' = Seen(outcome)
         /\ UNCHANGED <<file_path, flattened_documents, processed_count, error_count>>
    ELSE /\ file_path' = file_path + 1
         /\ flattened_documents' = flattened_documents \o outcome.val.docs
         /\ processed_count' = processed_count + outcome.val.processed
         /\ error_count' = error_count + outcome.val.errors
         /\ UNCHANGED <<pc, batch_returned>>

\* one pass of `for file_path in json_files`
BatchVisit ==
    /\ pc = "for"
    /\ file_path <= Len(json_files)
    /\ Visited(loop_body(flatteners[1], disk, json_files[file_path], validate_only))
    /\ UNCHANGED <<flatteners, disk, json_files, validate_only>>
    /\ UNCHANGED <<projector_vars, sanitize_vars, json_vars, other_vars>>

\* the loop is over: the summary is logged and the list returned
BatchReturn ==
    /\ pc = "for"
    /\ file_path > Len(json_files)
    /\ pc' = "done"
    /\ batch_returned' = Seen(summary(flattened_documents, processed_count, error_count))
    /\ UNCHANGED <<flatteners, disk, json_files, validate_only, file_path,
                   flattened_documents, processed_count, error_count>>
    /\ UNCHANGED <<projector_vars, sanitize_vars, json_vars, other_vars>>

BatchNext == BatchVisit \/ BatchReturn

BatchSpec == BatchInit /\ [][BatchNext]_vars

---------------------------------------------------------------------------
(* The calls of all three methods a client makes on one document and one value *)

\* documents that pass, that the validator rejects, that the projector fails
\* on, and inputs that are no mapping
CalledDocuments ==
    {Disk[path].document :
        path \in {"two", "none", "nometa", "notext", "nodate", "nochunks", "array"}}
    \cup {PyNone}

\* a mapping nested beyond max_depth 2
Deep ==
    PyDictItems(<< <<(<<"a">>),
        PyDictItems(<< <<(<<"a">>),
            PyDictItems(<< <<(<<"1", "x">>), PyList(<<PyInt(1)>>)>> >>)>> >>)>> >>)

\* scalars, a sequence and a deep mapping
CalledValues == Leaves \cup {PyList(<<PyInt(1), PyInt(2)>>), Deep}

CallsInit ==
    /\ flatteners = <<NewFlattener(<<"_">>, 10), NewFlattener(<<".">>, 2)>>
    /\ raw \in CalledDocuments
    /\ clock = 0
    /\ validated = NotCalled
    /\ returned = NoneCalled
    /\ escaped = FALSE
    /\ nested_json \in CalledValues
    /\ prefix \in {<<>>, <<"p">>}
    /\ json_returned = NoneCalled
    /\ SanitizeIdle
    /\ BatchIdle
    /\ OthersIdle

CallsNext ==
    \/ \E f \in DOMAIN flatteners : Validate(f)
    \/ \E f \in DOMAIN flatteners : Flatten(f)
    \/ \E f \in DOMAIN flatteners : FlattenJson(f)

CallsSpec == CallsInit /\ [][CallsNext]_vars

---------------------------------------------------------------------------
(* What the flatten_json claims speak of *)

\* the last flatten_json call of instance f returned
JsonCalled(f) == json_returned[f].called /\ ~json_returned[f].raised

\* the mapping that call returned
JsonResult(f) == json_returned[f].ret.d

\* a scalar
IsLeaf(v) == v.t \notin {"dict", "list"}

\* a key of letters only, which sanitization leaves as it is
IsPlainKey(k) == k # <<>> /\ \A i \in 1..Len(k) : k[i] \in Letters

\* the str a scalar is stored as
Coerced(v) ==
    CASE v = PyNone -> <<>>
      [] v = PyBool(TRUE) -> <<"T", "r", "u", "e">>
      [] v = PyBool(FALSE) -> <<"F", "a", "l", "s", "e">>
      [] v = PyInt(1) -> <<"1">>
      [] v = PyInt(2) -> <<"2">>
      [] v = PyFloat(-1500) -> <<"-", "1", ".", "5">>
      [] v.t = "str" -> v.s

\* "[i]" for the 0-based position i
Index(i) == <<"[">> \o Numeral(i) \o <<"]">>

---------------------------------------------------------------------------
(* C16 *)

\* C16: a scalar under key b inside a mapping under key a of the input is
\* emitted under the key a + separator + b (keys of letters, empty prefix), and
\* where that mapping entry is the whole input, with the scalar's str as value.
C16_SeparatorJoinsKeys ==
    \A f \in Instances :
        (JsonCalled(f) /\ nested_json.t = "dict" /\ prefix = <<>>) =>
            \A i \in 1..Len(nested_json.pairs) :
                LET a == nested_json.pairs[i][1]
                    inner == nested_json.pairs[i][2]
                IN  (IsPlainKey(a) /\ inner.t = "dict") =>
                        \A j \in 1..Len(inner.pairs) :
                            LET b == inner.pairs[j][1]
                                v == inner.pairs[j][2]
                                joined == a \o flatteners[f].separator \o b
                            IN  (IsPlainKey(b) /\ IsLeaf(v)) =>
                                    /\ joined \in DOMAIN JsonResult(f)
                                    /\ Len(nested_json.pairs) = 1 =>
                                           JsonResult(f)[joined] = PyStr(Coerced(v))

---------------------------------------------------------------------------
(* C17 *)

\* the keys and values a sequence of scalars reached under path p gives
ElementsUnder(p, items, result) ==
    \A i \in 1..Len(items) :
        IsLeaf(items[i]) =>
            /\ (p \o Index(i - 1)) \in DOMAIN result
            /\ result[p \o Index(i - 1)] = PyStr(Coerced(items[i]))

\* C17: the element at 0-based position i of a sequence reached under path p
\* is emitted under p followed by "[i]": for a sequence that is the input
\* itself (p is the prefix argument, "[i]" alone when it is empty), for a
\* sequence inside that sequence, and for a sequence under a mapping key of
\* letters (empty prefix); a sequence of scalars given as input yields these keys and no other.
C17_SequenceIndices ==
    \A f \in Instances :
        JsonCalled(f) =>
            /\ nested_json.t = "list" =>
                   /\ ElementsUnder(prefix, nested_json.items, JsonResult(f))
                   /\ (\A i \in 1..Len(nested_json.items) : IsLeaf(nested_json.items[i])) =>
                          DOMAIN JsonResult(f) =
                              {prefix \o Index(i - 1) : i \in 1..Len(nested_json.items)}
                   /\ \A i \in 1..Len(nested_json.items) :
                          nested_json.items[i].t = "list" =>
                              ElementsUnder(prefix \o Index(i - 1),
                                            nested_json.items[i].items, JsonResult(f))
            /\ (nested_json.t = "dict" /\ prefix = <<>>) =>
                   \A i \in 1..Len(nested_json.pairs) :
                       (IsPlainKey(nested_json.pairs[i][1])
                        /\ nested_json.pairs[i][2].t = "list") =>
                           ElementsUnder(nested_json.pairs[i][1],
                                         nested_json.pairs[i][2].items, JsonResult(f))

\* {"a": [1, 2]} has been flattened to {"a[0]": "1", "a[1]": "2"}
C17_Witness ==
    /\ nested_json = PyDictItems(<< <<(<<"a">>), PyList(<<PyInt(1), PyInt(2)>>)>> >>)
    /\ prefix = <<>>
    /\ JsonCalled(1)
    /\ JsonResult(1) = (<<"a", "[", "0", "]">> :> PyStr(<<"1">>))
                        @@ (<<"a", "[", "1", "]">> :> PyStr(<<"2">>))

---------------------------------------------------------------------------
(* C18 *)

\* the last _sanitize_key call of instance f returned
KeyCalled(f) == key_returned[f].called /\ ~key_returned[f].raised

\* the str that call returned
KeyResult(f) == key_returned[f].ret.s

\* k with every space, hyphen and dot replaced by the str sep
RECURSIVE Separated(_, _)
Separated(k, sep) ==
    IF k = <<>> THEN <<>>
    ELSE (IF Head(k) \in {" ", "-", "."} THEN sep ELSE <<Head(k)>>)
         \o Separated(Tail(k), sep)

\* s with the literal field_ in front
FieldPrefixed(s) == <<"f", "i", "e", "l", "d", "_">> \o s

\* C18: what _sanitize_key returns is the key with every space, hyphen and
\* dot replaced by the separator of the instance, with or without the field_
\* prefix in front.
C18_ReplacesWithSeparator ==
    \A f \in Instances :
        KeyCalled(f) =>
            LET replaced == Separated(key_given, flatteners[f].separator)
            IN  KeyResult(f) \in {replaced, FieldPrefixed(replaced)}

---------------------------------------------------------------------------
(* C19 *)

\* s begins with a letter or an underscore
BeginsAsIdentifier(s) == s # <<>> /\ (s[1] \in Letters \/ s[1] = "_")

\* C19: what _sanitize_key returns begins with a letter or an underscore; it
\* is the replaced key itself where that begins with a letter or an
\* underscore, and field_ followed by the replaced key where it does not.
C19_FieldPrefix ==
    \A f \in Instances :
        KeyCalled(f) =>
            LET replaced == Separated(key_given, <<"_">>)
            IN  /\ BeginsAsIdentifier(KeyResult(f))
                /\ KeyResult(f) = IF BeginsAsIdentifier(replaced) THEN replaced
                                  ELSE FieldPrefixed(replaced)

---------------------------------------------------------------------------
(* C20 *)

\* C20: every value of the returned mapping is a str; a scalar given as the
\* input, or as the one entry of a mapping or the one element of a sequence,
\* is stored as "" for None and as its string representation otherwise.
C20_ValuesAreStrings ==
    \A f \in Instances :
        JsonCalled(f) =>
            /\ json_returned[f].ret.t = "dict"
            /\ \A k \in DOMAIN JsonResult(f) : JsonResult(f)[k].t = "str"
            /\ IsLeaf(nested_json) =>
                   JsonResult(f) = (prefix :> PyStr(Coerced(nested_json)))
            /\ (nested_json.t = "dict" /\ Len(nested_json.pairs) = 1
                    /\ IsLeaf(nested_json.pairs[1][2])) =>
                   \E k \in DOMAIN JsonResult(f) :
                       JsonResult(f) = (k :> PyStr(Coerced(nested_json.pairs[1][2])))
            /\ (nested_json.t = "list" /\ Len(nested_json.items) = 1
                    /\ IsLeaf(nested_json.items[1])) =>
                   \E k \in DOMAIN JsonResult(f) :
                       JsonResult(f) = (k :> PyStr(Coerced(nested_json.items[1])))

\* [None, True] and the float -1.5 under a key have been flattened
C20_Witness ==
    \/ /\ nested_json = PyList(<<PyNone, PyBool(TRUE)>>)
       /\ JsonCalled(1)
       /\ JsonResult(1)[prefix \o <<"[", "0", "]">>] = PyStr(<<>>)
       /\ JsonResult(1)[prefix \o <<"[", "1", "]">>] = PyStr(<<"T", "r", "u", "e">>)
    \/ /\ nested_json = PyDictItems(<< <<(<<"a">>), PyFloat(-1500)>> >>)
       /\ JsonCalled(2)
       /\ \E k \in DOMAIN JsonResult(2) :
              JsonResult(2)[k] = PyStr(<<"-", "1", ".", "5">>)

---------------------------------------------------------------------------
(* What the batch_flatten_json claims speak of *)

\* the call has ended, by a return or by an exception
BatchDone == pc = "done"

\* the call returned a list
BatchReturned ==
    BatchDone /\ ~batch_returned.raised /\ batch_returned.ret.t = "list"

\* an ISO-8601 timestamp, with or without trailing "Z"
IsTimestamp(s) ==
    py_rstrip(s, {"Z"}) \in {CreatedLeap, CreatedZoned, CreatedMin}

\* a chunk of the data model: int speaker, numeric start and end, str text
IsChunk(chunk) ==
    /\ chunk.t = "dict"
    /\ {"speaker", "start", "end", "text"} \subseteq DOMAIN chunk.d
    /\ chunk.d["speaker"].t = "int"
    /\ chunk.d["start"].t \in {"int", "float"}
    /\ chunk.d["end"].t \in {"int", "float"}
    /\ chunk.d["text"].t = "str"

\* a document of the data model: a non-empty str id, the nine metadata
\* fields with a timestamp as created, and a list of chunks
IsTranscript(document) ==
    /\ document.t = "dict"
    /\ {"id", "metadata", "transcript_chunks"} \subseteq DOMAIN document.d
    /\ document.d["id"].t = "str"
    /\ document.d["id"].s # <<>>
    /\ document.d["metadata"].t = "dict"
    /\ FileMetaFields \subseteq DOMAIN document.d["metadata"].d
    /\ document.d["metadata"].d["created"].t = "str"
    /\ IsTimestamp(document.d["metadata"].d["created"].s)
    /\ document.d["transcript_chunks"].t = "list"
    /\ \A i \in 1..Len(document.d["transcript_chunks"].items) :
           IsChunk(document.d["transcript_chunks"].items[i])

\* the bytes hold a byte that is no UTF-8: a lone 0xE9
IsNoUtf8(source) == \E i \in 1..Len(source) : source[i] = 233

\* the file's text is JSON once decoded
IsJsonText(file) ==
    file.document # NotJson /\ \A i \in 1..Len(file.source) : file.source[i] # 34

\* a well-formed file: it is there, its text is JSON, and the JSON is a
\* document of the data model; every other path is a malformed file
WellFormedFile(path) ==
    /\ path \in DOMAIN disk
    /\ disk[path].kind = "file"
    /\ IsJsonText(disk[path])
    /\ IsTranscript(disk[path].document)

\* the records of a well-formed file
RecordsOf(path) == flatten_for_ai_search(flatteners[1], disk[path].document).val.items

\* the chunks of a well-formed file
ChunksOf(path) == disk[path].document.d["transcript_chunks"].items

\* a run of records is the file record of the file at path followed by its
\* chunk records in order
IsRunOf(records, path) ==
    /\ records = RecordsOf(path)
    /\ Len(records) = Len(ChunksOf(path)) + 1
    /\ IsFileRecord(records[1])
    /\ records[1].d["id"] = disk[path].document.d["id"]
    /\ \A i \in 1..Len(ChunksOf(path)) :
           /\ records[i + 1].d["parentDocId"] = disk[path].document.d["id"]
           /\ records[i + 1].d["id"] =
                  PyStr(disk[path].document.d["id"].s \o <<"_">> \o Numeral(i - 1))
           /\ records[i + 1].d["speaker"] = ChunksOf(path)[i].d["speaker"]
           /\ records[i + 1].d["start_offset"] = ChunksOf(path)[i].d["start"]

---------------------------------------------------------------------------
(* C12 *)

\* C12: a batch of one well-formed and one malformed file, in either order,
\* returns exactly the records of the well-formed file and ends with
\* error_count = 1 and processed_count = 1.
C12_MixedBatch ==
    \A good \in {1, 2} :
        (/\ BatchDone
         /\ ~validate_only
         /\ Len(json_files) = 2
         /\ WellFormedFile(json_files[good])
         /\ ~WellFormedFile(json_files[3 - good])) =>
            /\ BatchReturned
            /\ IsRunOf(batch_returned.ret.items, json_files[good])
            /\ error_count = 1
            /\ processed_count = 1

\* the batches of a file without metadata and a file with two chunks have
\* ended, in this order and in the other, with three records
C12_Witness ==
    /\ BatchReturned
    /\ ~validate_only
    /\ json_files \in {<<"nometa", "two">>, <<"two", "nometa">>}
    /\ Len(batch_returned.ret.items) = 3
    /\ error_count = 1
    /\ processed_count = 1

---------------------------------------------------------------------------
(* C13 *)

\* C13: the call ends by returning a list, having visited every input,
\* whatever the files are; no exception reaches the caller.
C13_NeverAborts ==
    BatchDone =>
        /\ batch_returned.called
        /\ ~batch_returned.raised
        /\ batch_returned.ret.t = "list"
        /\ file_path = Len(json_files) + 1

---------------------------------------------------------------------------
(* C14 *)

\* the records the first n files contribute: the run of every well-formed
\* file, nothing for any other file, and nothing at all when only validating
RECURSIVE RunsOf(_, _)
RunsOf(paths, n) ==
    IF n = 0 THEN <<>>
    ELSE RunsOf(paths, n - 1)
         \o (IF WellFormedFile(paths[n]) /\ ~validate_only THEN RecordsOf(paths[n])
             ELSE <<>>)

\* C14: after every pass of the loop, and in the list returned, the records
\* are the runs of the files visited, in input-file order; a run is the file
\* record of a file followed by all its chunk records in order, and a file
\* that fails loading, validation or flattening has no run.
C14_WholeRuns ==
    /\ pc = "for" => flattened_documents = RunsOf(json_files, file_path - 1)
    /\ BatchReturned => batch_returned.ret.items = RunsOf(json_files, Len(json_files))
    /\ (file_path > 1 /\ WellFormedFile(json_files[file_path - 1])) =>
           IsRunOf(RecordsOf(json_files[file_path - 1]), json_files[file_path - 1])

\* two files with records around a file that fails flattening: 3 + 0 + 2
\* records, or with a file that fails loading first: 0 + 3 records
C14_Witness ==
    /\ BatchReturned
    /\ ~validate_only
    /\ \/ /\ json_files = <<"notjson", "two">>
          /\ Len(batch_returned.ret.items) = 3
          /\ IsFileRecord(batch_returned.ret.items[1])
       \/ /\ json_files = <<"two", "one">>
          /\ Len(batch_returned.ret.items) = 5
          /\ IsFileRecord(batch_returned.ret.items[4])

---------------------------------------------------------------------------
(* C15 *)

\* the pass of the loop over a file that is no UTF-8
FallbackPass(file) ==
    IF ~IsJsonText(file)
    THEN /\ error_count' = error_count + 1
         /\ processed_count' = processed_count
         /\ flattened_documents' = flattened_documents
    ELSE IF IsTranscript(file.document)
    THEN /\ processed_count' = processed_count + 1
         /\ error_count' = error_count
         /\ Len(flattened_documents') =
                Len(flattened_documents)
                + (IF validate_only THEN 0
                   ELSE Len(file.document.d["transcript_chunks"].items) + 1)
    ELSE /\ error_count' = error_count + 1
         /\ processed_count' = processed_count
         /\ flattened_documents' = flattened_documents

\* C15: the pass over a file whose UTF-8 decoding fails reads it again as
\* Latin-1: where that text is JSON the file is handled like any other (a
\* document of the data model counts as processed and gives its records,
\* another document counts as one error); where it is not, the file counts as
\* exactly one error and gives no record; in every case the loop goes on
\* to the next file.
C15_Latin1Fallback ==
    [][(/\ pc = "for"
        /\ file_path <= Len(json_files)
        /\ json_files[file_path] \in DOMAIN disk
        /\ disk[json_files[file_path]].kind = "file"
        /\ IsNoUtf8(disk[json_files[file_path]].source)) =>
            /\ pc' = "for"
            /\ file_path' = file_path + 1
            /\ FallbackPass(disk[json_files[file_path]])]_vars

\* a Latin-1 file that is no JSON and a Latin-1 file that is: one error,
\* one success, two records
C15_Witness ==
    /\ BatchReturned
    /\ ~validate_only
    /\ json_files = <<"latin_quote", "latin">>
    /\ error_count = 1
    /\ processed_count = 1
    /\ Len(batch_returned.ret.items) = 2

---------------------------------------------------------------------------
(* C11 *)

\* the lists and mappings inside the input document: the document, its
\* metadata, its transcript_chunks and every chunk
InputContainers ==
    {raw}
    \cup (IF raw.t = "dict"
          THEN {raw.d[k] : k \in DOMAIN raw.d}
               \cup (IF "transcript_chunks" \in DOMAIN raw.d
                        /\ raw.d["transcript_chunks"].t = "list"
                     THEN {raw.d["transcript_chunks"].items[i] :
                              i \in 1..Len(raw.d["transcript_chunks"].items)}
                     ELSE {})
          ELSE {})

\* every returned record list, and every record in it, differs from every
\* list and mapping of the input, so it is none of the input's objects
ReturnedFresh ==
    \A f \in Instances :
        Flattened(f) =>
            /\ returned[f].ret \notin InputContainers
            /\ \A i \in 1..Len(Records(f)) : Records(f)[i] \notin InputContainers

\* C11: no call of validate_document_structure, flatten_for_ai_search or
\* flatten_json, returning a result or failing, changes its input document or
\* value or the fields of a flattener (separator, max_depth, required_keys),
\* and a returned record list is none of the input's lists.
C11_InputsUnchanged ==
    /\ []ReturnedFresh
    /\ [][/\ raw' = raw
          /\ nested_json' = nested_json
          /\ prefix' = prefix
          /\ flatteners' = flatteners]_vars

\* all three methods have been called on a document the projector fails on
\* and on a value nested beyond max_depth, and the inputs are as given
C11_Witness ==
    /\ raw = Disk["nodate"].document
    /\ nested_json = Deep
    /\ validated.called /\ validated.ret
    /\ returned[1].called /\ returned[1].ret = PyNone
    /\ Flattened(2) = FALSE
    /\ json_returned[2].called
    /\ JsonResult(2) = EmptyDict

---------------------------------------------------------------------------
(* C21 *)

\* the children of a container, in order
Children(v) ==
    IF v.t = "list" THEN v.items ELSE [i \in 1..Len(v.pairs) |-> v.pairs[i][2]]

\* the strs of the scalars of v that lie at depth max or less, v itself lying
\* at depth d
RECURSIVE CoercedWithin(_, _, _)
CoercedWithin(v, d, max) ==
    IF IsLeaf(v) THEN (IF d <= max THEN {Coerced(v)} ELSE {})
    ELSE UNION {CoercedWithin(Children(v)[i], d + 1, max) : i \in 1..Len(Children(v))}

\* the replacement of spaces, hyphens and dots by underscores and the field_
\* prefix, as the key of an entry is written into the output key
Segment(k) ==
    LET replaced == Separated(k, <<"_">>)
    IN  IF replaced = <<>> \/ replaced[1] \in Letters \cup {"_"} THEN replaced
        ELSE FieldPrefixed(replaced)

\* s begins with p
BeginsWith(s, p) == Len(p) <= Len(s) /\ SubSeq(s, 1, Len(p)) = p

\* in no mapping of v does the segment of one key begin with the segment of
\* another
RECURSIVE PrefixFree(_)
PrefixFree(v) ==
    IF IsLeaf(v) THEN TRUE
    ELSE /\ \A i \in 1..Len(Children(v)) : PrefixFree(Children(v)[i])
         /\ v.t = "dict" =>
                \A i, j \in 1..Len(v.pairs) :
                    i # j => ~BeginsWith(Segment(v.pairs[i][1]), Segment(v.pairs[j][1]))

\* the strs the returned mapping holds
EmittedStrs(f) == {JsonResult(f)[k].s : k \in DOMAIN JsonResult(f)}

\* C21: flatten_json returns normally whatever the depth of its input; every
\* value it returns is the str of a scalar at depth max_depth or less (root at
\* depth 0, one level per mapping key or sequence position), and where no two
\* scalars can share an output key every scalar at such a depth has its str in
\* the output.
C21_DepthBounded ==
    \A f \in Instances :
        json_returned[f].called =>
            /\ ~json_returned[f].raised
            /\ json_returned[f].ret.t = "dict"
            /\ EmittedStrs(f) \subseteq CoercedWithin(nested_json, 0, flatteners[f].max_depth)
            /\ PrefixFree(nested_json) =>
                   EmittedStrs(f) = CoercedWithin(nested_json, 0, flatteners[f].max_depth)

\* [1, [[2]]] has been flattened with max_depth 2 to {"[0]": "1"}: the 2 at
\* depth 3 is dropped, the 1 at depth 1 is kept
C21_Witness ==
    /\ nested_json = PyList(<<PyInt(1), PyList(<<PyList(<<PyInt(2)>>)>>)>>)
    /\ prefix = <<>>
    /\ flatteners[2].max_depth = 2
    /\ JsonCalled(2)
    /\ JsonResult(2) = (<<"[", "0", "]">> :> PyStr(<<"1">>))

---------------------------------------------------------------------------
(* C28 *)

\* the paths (positions of entries and elements, from the root down) of the
\* scalars of v that lie at depth max or less, v itself lying at depth d
RECURSIVE LeafPaths(_, _, _)
LeafPaths(v, d, max) ==
    IF IsLeaf(v) THEN (IF d <= max THEN {<<>>} ELSE {})
    ELSE UNION {{<<i>> \o p : p \in LeafPaths(Children(v)[i], d + 1, max)} :
                i \in 1..Len(Children(v))}

\* the number of entries of the returned mapping is the number of scalars
\* within the depth bound
EntryPerLeaf(f) ==
    Cardinality(DOMAIN JsonResult(f)) =
        Cardinality(LeafPaths(nested_json, 0, flatteners[f].max_depth))

\* C28 as stated: every call returns one entry for each scalar within the
\* depth bound, so that no two scalars share a key and none is overwritten.
C28_NoLeafLost == \A f \in Instances : JsonCalled(f) => EntryPerLeaf(f)

\* C28, amended: a call returns one entry for each scalar within the depth
\* bound where in no mapping of the input the sanitized key of one entry begins
\* with the sanitized key of another.
C28_NoLeafLostPrefixFree ==
    \A f \in Instances : (JsonCalled(f) /\ PrefixFree(nested_json)) => EntryPerLeaf(f)

\* {"a": 1, "b": {"b": 1}} has been flattened to the two entries a and bb
C28_Witness ==
    /\ nested_json = PyDictItems(<< <<(<<"a">>), PyInt(1)>>,
                                    <<(<<"b">>), PyDictItems(<< <<(<<"b">>), PyInt(1)>> >>)>> >>)
    /\ prefix = <<>>
    /\ PrefixFree(nested_json)
    /\ JsonCalled(1)
    /\ DOMAIN JsonResult(1) = {<<"a">>, <<"b", "b">>}

---------------------------------------------------------------------------
(* C26 *)

\* the file at path loads and holds a document the validator accepts: a
\* well-formed mapping with a non-empty str id
PassesValidation(path) ==
    /\ path \in DOMAIN disk
    /\ disk[path].kind = "file"
    /\ IsJsonText(disk[path])
    /\ IsWellFormed(disk[path].document)
    /\ disk[path].document.d["id"].t = "str"
    /\ disk[path].document.d["id"].s # <<>>

\* the file at path counts as processed: it contributes records, or, when
\* only validating, it passes validation
CountsAsProcessed(path) ==
    IF validate_only THEN PassesValidation(path) ELSE WellFormedFile(path)

\* the positions of the file records among the records collected so far
FileRecordsCollected ==
    {i \in 1..Len(flattened_documents) : IsFileRecord(flattened_documents[i])}

\* the counters after the files before file_path have been visited
CountersMatchVisits ==
    /\ processed_count + error_count = file_path - 1
    /\ BatchDone => processed_count + error_count = Len(json_files)
    /\ processed_count =
           Cardinality({i \in 1..(file_path - 1) : CountsAsProcessed(json_files[i])})
    /\ IF validate_only THEN flattened_documents = <<>>
       ELSE processed_count = Cardinality(FileRecordsCollected)

\* one pass of the loop adds 1 to exactly one of the two counters
OneCounterPerPass ==
    file_path' # file_path =>
        \/ processed_count' = processed_count + 1 /\ error_count' = error_count
        \/ processed_count' = processed_count /\ error_count' = error_count + 1

\* C26: every pass of the loop adds 1 to exactly one of processed_count and
\* error_count; after any number of passes their sum is the number of files
\* visited, and the number of inputs once the call has ended; processed_count
\* is the number of visited files that contributed records, or, when only
\* validating, that passed validation, no record being collected then.
C26_CountersAccount == []CountersMatchVisits /\ [][OneCounterPerPass]_vars

\* a file that cannot be flattened and a file with two chunks have been
\* visited: validating only, both count as processed and no record is there;
\* otherwise one counts as processed, one as an error
C26_Witness ==
    /\ BatchReturned
    /\ json_files = <<"nodate", "two">>
    /\ \/ validate_only /\ processed_count = 2 /\ error_count = 0
          /\ batch_returned.ret.items = <<>>
       \/ ~validate_only /\ processed_count = 1 /\ error_count = 1
          /\ Len(batch_returned.ret.items) = 3

---------------------------------------------------------------------------
(* C27 *)

\* the ids of the records are pairwise distinct
DistinctIds(records) ==
    \A i, j \in 1..Len(records) : i # j => records[i].d["id"] # records[j].d["id"]

\* the file at path holds a document with a str id
HoldsDocument(path) ==
    /\ path \in DOMAIN disk
    /\ disk[path].kind = "file"
    /\ IsJsonText(disk[path])
    /\ disk[path].document.t = "dict"
    /\ "id" \in DOMAIN disk[path].document.d
    /\ disk[path].document.d["id"].t = "str"

\* the id of that document
IdOf(path) == disk[path].document.d["id"].s

\* the input documents have pairwise distinct str ids
DistinctInputIds ==
    \A i, j \in 1..Len(json_files) :
        (i # j /\ HoldsDocument(json_files[i]) /\ HoldsDocument(json_files[j])) =>
            IdOf(json_files[i]) # IdOf(json_files[j])

\* the id of a document followed by "_" and the position of one of its chunks
IdsWithPosition(path) ==
    IF WellFormedFile(path)
    THEN {IdOf(path) \o <<"_">> \o Numeral(k - 1) : k \in 1..Len(ChunksOf(path))}
    ELSE {}

\* no input document has as id the id of another followed by "_" and the
\* position of one of that document's chunks
NoIdExtendsAnother ==
    \A i, j \in 1..Len(json_files) :
        (i # j /\ HoldsDocument(json_files[j])) =>
            IdOf(json_files[j]) \notin IdsWithPosition(json_files[i])

\* the records of each well-formed input file have pairwise distinct ids
DistinctWithinEach ==
    \A i \in 1..Len(json_files) :
        WellFormedFile(json_files[i]) => DistinctIds(RecordsOf(json_files[i]))

\* C27 as stated: the record ids of one flatten_for_ai_search result are
\* pairwise distinct, and so are all record ids of a batch output over input
\* documents with pairwise distinct str ids.
C27_IdsUnique ==
    BatchReturned =>
        /\ DistinctWithinEach
        /\ DistinctInputIds => DistinctIds(batch_returned.ret.items)

\* C27, amended: the record ids of one flatten_for_ai_search result are
\* pairwise distinct, and so are all record ids of a batch output over input
\* documents with pairwise distinct str ids none of which is the id of another
\* followed by "_" and the position of one of its chunks.
C27_IdsUniqueUnextended ==
    BatchReturned =>
        /\ DistinctWithinEach
        /\ (DistinctInputIds /\ NoIdExtendsAnother) =>
               DistinctIds(batch_returned.ret.items)

\* the files with the ids d1 (two chunks) and d3 (one chunk) have given five
\* records with five ids
C27_Witness ==
    /\ BatchReturned
    /\ ~validate_only
    /\ json_files = <<"two", "latin">>
    /\ DistinctInputIds
    /\ NoIdExtendsAnother
    /\ Len(batch_returned.ret.items) = 5
    /\ Cardinality({batch_returned.ret.items[i].d["id"] : i \in 1..5}) = 5

---------------------------------------------------------------------------
(* C25 *)

\* a timestamp fromisoformat parses once trailing "Z"s are stripped
IsParseable(created) ==
    /\ created.t = "str"
    /\ py_rstrip(created.s, {"Z"}) \in
           {CreatedLeap, CreatedZoned, CreatedMin, py_rstrip(CreatedMax, {"Z"})}

\* the chunks of a document, none where it has no transcript_chunks key
ChunksIfAny(document) ==
    IF "transcript_chunks" \in DOMAIN document.d
    THEN document.d["transcript_chunks"].items ELSE <<>>

\* a document the validator accepts whose metadata holds the nine fields with
\* a parseable created, and whose chunks have numeric offsets and str texts
IsFlattenable(document) ==
    /\ IsWellFormed(document)
    /\ document.d["id"] \notin {PyNone, PyStr(<<>>), PyInt(0)}
    /\ FileMetaFields \subseteq DOMAIN document.d["metadata"].d
    /\ IsParseable(document.d["metadata"].d["created"])
    /\ \A i \in 1..Len(ChunksIfAny(document)) :
           LET chunk == ChunksIfAny(document)[i] IN
           /\ chunk.d["start"].t \in {"int", "float"}
           /\ chunk.d["end"].t \in {"int", "float"}
           /\ chunk.d["text"].t = "str"

\* C25: every such document is flattened to a record list, and to the file
\* record alone where its transcript_chunks is the empty list or is absent.
C25_ValidFlattens ==
    \A f \in Instances :
        (returned[f].called /\ IsFlattenable(raw)) =>
            /\ Flattened(f)
            /\ ChunksIfAny(raw) = <<>> =>
                   Len(Records(f)) = 1 /\ IsFileRecord(Records(f)[1])

---------------------------------------------------------------------------
(* The get_document_statistics calls a client makes on one batch of records *)

\* a file record and a chunk record as a test writes them, with the fields
\* the statistics read
SlimFile == PyDict([id |-> PyStr(<<"f", "1">>), flattened_transcript |-> PyStr(<<"h", "i">>)])
SlimChunk(position, speaker, start, end) ==
    PyDict([id |-> PyStr(<<"f", "1", "_">> \o NatChars(position)),
            parentDocId |-> PyStr(<<"f", "1">>), speaker |-> speaker,
            start_offset |-> start, end_offset |-> end,
            text |-> PyStr(<<"a", "b">>)])

\* the records flatten_for_ai_search returns for a document with two chunks
FlattenedTwo ==
    flatten_for_ai_search(NewFlattener(<<"_">>, 10),
        Transcript(<<"d", "1">>, CreatedLeap \o <<"Z">>, <<ChunkA, ChunkB>>)).val.items

\* the elements of a batch: records of the flattened data model, chunk records
\* that lack fields, whose start_offset is a str or whose text is None, a
\* record of another kind, and None
StatRecords ==
    {SlimFile,
     SlimChunk(0, PyInt(0), PyInt(0), PyInt(5)),
     SlimChunk(1, PyInt(1), PyInt(5), PyInt(12)),
     FlattenedTwo[1], FlattenedTwo[2], FlattenedTwo[3],
     PyDict([parentDocId |-> PyStr(<<"f", "2">>)]),
     PyDict([parentDocId |-> PyStr(<<"f", "1">>), start_offset |-> PyStr(<<"0">>),
             end_offset |-> PyStr(<<"5">>)]),
     PyDict([parentDocId |-> PyStr(<<"f", "1">>), text |-> PyNone]),
     PyDict([id |-> PyStr(<<"x">>)]),
     PyNone}

StatsInit ==
    /\ flatteners = <<NewFlattener(<<"_">>, 10), NewFlattener(<<".">>, 2)>>
    /\ flat_documents \in SeqsUpTo(StatRecords, MaxRecords)
    /\ statistics = NotCalled
    /\ flat_document = PyNone
    /\ flat_validated = NotCalled
    /\ ProjectorIdle
    /\ SanitizeIdle
    /\ JsonIdle
    /\ BatchIdle
    /\ ThreadsIdle
    /\ IngestIdle

\* flatteners[f].get_document_statistics(flat_documents)
Statistics(f) ==
    /\ statistics' = Seen(get_document_statistics(flatteners[f], flat_documents))
    /\ UNCHANGED <<flatteners, flat_document, flat_validated, flat_documents>>
    /\ UNCHANGED <<projector_vars, sanitize_vars, json_vars, batch_vars,
                   thread_vars, ingest_vars>>

StatsNext == \E f \in DOMAIN flatteners : Statistics(f)

StatsSpec == StatsInit /\ [][StatsNext]_vars

---------------------------------------------------------------------------
(* C22 *)

\* a record of the flattened data model: a mapping; where it carries
\* parentDocId, a str parentDocId and text, an int speaker and numeric offsets
IsFlatRecord(record) ==
    /\ record.t = "dict"
    /\ "parentDocId" \in DOMAIN record.d =>
           /\ {"speaker", "start_offset", "end_offset", "text"} \subseteq DOMAIN record.d
           /\ record.d["parentDocId"].t = "str"
           /\ record.d["text"].t = "str"
           /\ record.d["speaker"].t = "int"
           /\ record.d["start_offset"].t \in {"int", "float"}
           /\ record.d["end_offset"].t \in {"int", "float"}

\* the batch holds records of the flattened data model only
IsFlatBatch == \A i \in 1..Len(flat_documents) : IsFlatRecord(flat_documents[i])

\* the positions of the records of the batch that carry the field
Carrying(field) ==
    {i \in 1..Len(flat_documents) : field \in DOMAIN flat_documents[i].d}

\* the sum, in thousandths, of end_offset - start_offset over the records at
\* the positions
RECURSIVE SpanSum(_)
SpanSum(positions) ==
    IF positions = {} THEN 0
    ELSE LET i == CHOOSE p \in positions : TRUE IN
         Millis(flat_documents[i].d["end_offset"])
         - Millis(flat_documents[i].d["start_offset"]) + SpanSum(positions \ {i})

\* the float avg times n is the number total
IsQuotient(avg, total, n) ==
    /\ avg.t = "float"
    /\ IF "over" \in DOMAIN avg THEN avg.m * n = Millis(total) * avg.over
       ELSE avg.m * n = Millis(total)

\* the call returned a mapping with the four statistics, which count the
\* records and sum and average the spans of the chunk records
ReportsCountsAndDurations ==
    /\ ~statistics.raised
    /\ statistics.ret.t = "dict"
    /\ {"file_documents", "chunk_documents", "total_duration", "avg_chunk_duration"}
           \subseteq DOMAIN statistics.ret.d
    /\ statistics.ret.d["file_documents"] =
           PyInt(Cardinality(Carrying("flattened_transcript")))
    /\ statistics.ret.d["chunk_documents"] = PyInt(Cardinality(Carrying("parentDocId")))
    /\ statistics.ret.d["total_duration"].t \in {"int", "float"}
    /\ Millis(statistics.ret.d["total_duration"]) = SpanSum(Carrying("parentDocId"))
    /\ Carrying("parentDocId") # {} =>
           IsQuotient(statistics.ret.d["avg_chunk_duration"],
                      statistics.ret.d["total_duration"],
                      Cardinality(Carrying("parentDocId")))

\* C22 as stated: for every batch of flattened records the call reports
\* file_documents, chunk_documents, total_duration and avg_chunk_duration as
\* the two counts, the sum of the spans and the sum divided by the count.
C22_Statistics == (statistics.called /\ IsFlatBatch) => ReportsCountsAndDurations

\* C22, amended: so it does for every batch that is not empty, the average
\* being 0 where the batch has no chunk record; for the empty batch it
\* reports total_documents = 0 and nothing else.
C22_StatisticsOfNonEmpty ==
    (statistics.called /\ IsFlatBatch) =>
        IF flat_documents = <<>>
        THEN /\ ~statistics.raised
             /\ statistics.ret = PyDict([total_documents |-> PyInt(0)])
        ELSE /\ ReportsCountsAndDurations
             /\ Carrying("parentDocId") = {} =>
                    statistics.ret.d["avg_chunk_duration"] = PyInt(0)

\* one file record and the chunk records with the offsets (0, 5) and (5, 12)
\* have given total_duration 12 and avg_chunk_duration 6.0
C22_Witness ==
    /\ flat_documents = <<SlimFile, SlimChunk(0, PyInt(0), PyInt(0), PyInt(5)),
                          SlimChunk(1, PyInt(1), PyInt(5), PyInt(12))>>
    /\ statistics.called
    /\ statistics.ret.d["total_duration"] = PyInt(12)
    /\ statistics.ret.d["avg_chunk_duration"] = PyFloat(6000)
    /\ statistics.ret.d["chunk_documents"] = PyInt(2)
    /\ statistics.ret.d["file_documents"] = PyInt(1)

---------------------------------------------------------------------------
(* The validate_flattened_document calls a client makes on records it wrote
   itself and on records flatten_for_ai_search returned *)

\* the file record and the last chunk record of a document with two chunks
GoodFile == FlattenedTwo[1]
GoodChunk == FlattenedTwo[3]

\* the record with the field set to the value, and without the field
With(record, field, value) == PyDict((field :> value) @@ record.d)
Lacking(record, field) == PyDict(Without(record.d, field))

\* the fields whose values are checked
CheckedFields ==
    {"id", "flattened_transcript", "parentDocId", "text", "start_offset",
     "end_offset", "speaker"}

\* values of another type or of no content
OtherValues ==
    {PyNone, PyStr(<<>>), PyStr(<<"x">>), PyInt(7), PyFloat(1500), PyList(<<>>)}

\* the records a client wrote itself: the two good records, each without one
\* of its fields, each with another value in a checked field (which gives a
\* file record parentDocId and a chunk record flattened_transcript), and
\* values that are no mapping
WrittenRecords ==
    {GoodFile, GoodChunk, PyNone, PyInt(3), PyList(<<>>), PyStr(<<"x">>)}
    \cup UNION {{Lacking(record, field) : field \in DOMAIN record.d} :
                record \in {GoodFile, GoodChunk}}
    \cup {With(record, field, value) :
              record \in {GoodFile, GoodChunk}, field \in CheckedFields,
              value \in OtherValues}

\* a transcript document with the given id, flattened_transcript and speaker
\* of its second chunk
Source(id, flattened_transcript, speaker) ==
    PyDict([id |-> id,
            metadata |-> PyDict(("flattened_transcript" :> flattened_transcript)
                                @@ FullMeta(PyStr(CreatedLeap \o <<"Z">>))),
            transcript_chunks |-> PyList(<<ChunkA, PyDict(("speaker" :> speaker) @@ ChunkB.d)>>)])

\* the documents flattened: of the data model (four), with an int id, with a
\* flattened_transcript that is no str, with a speaker that is no number,
\* and one the projector cannot flatten
FlatSources ==
    {Source(PyStr(<<"d", "1">>), PyStr(<<"h", "i">>), PyInt(1)),
     Source(PyInt(7), PyStr(<<"h", "i">>), PyInt(1)),
     Source(PyStr(<<"d", "1">>), PyInt(3), PyInt(1)),
     Source(PyStr(<<"d", "1">>), PyStr(<<"h", "i">>), PyNone),
     Source(PyStr(<<"d", "1">>), PyStr(<<"h", "i">>), PyStr(<<"S", "1">>)),
     Transcript(<<"d", "0">>, CreatedZoned, <<>>),
     Transcript(<<"d", "1", "_", "0">>, CreatedLeap, <<ChunkB>>),
     Transcript(<<"d", "3">>, CreatedMin, <<ChunkA, ChunkA>>),
     Transcript(<<"d", "8">>, <<"n", "/", "a">>, <<ChunkA>>)}

FlatInit ==
    /\ flatteners = <<NewFlattener(<<"_">>, 10), NewFlattener(<<".">>, 2)>>
    /\ \/ raw \in FlatSources /\ flat_document = PyNone
       \/ raw = PyNone /\ flat_document \in WrittenRecords
    /\ clock = 0
    /\ validated = NotCalled
    /\ returned = NoneCalled
    /\ escaped = FALSE
    /\ flat_validated = NotCalled
    /\ flat_documents = <<>>
    /\ statistics = NotCalled
    /\ SanitizeIdle
    /\ JsonIdle
    /\ BatchIdle
    /\ ThreadsIdle
    /\ IngestIdle

\* the client takes record i of what flatteners[f].flatten_for_ai_search(raw)
\* returned as the next record to validate
TakeRecord(f, i) ==
    /\ returned[f].called
    /\ ~returned[f].raised
    /\ returned[f].ret.t = "list"
    /\ i \in 1..Len(returned[f].ret.items)
    /\ flat_document' = returned[f].ret.items[i]
    /\ flat_validated' = NotCalled
    /\ UNCHANGED <<flatteners, flat_documents, statistics>>
    /\ UNCHANGED <<projector_vars, sanitize_vars, json_vars, batch_vars,
                   thread_vars, ingest_vars>>

\* flatteners[f].validate_flattened_document(flat_document)
ValidateFlattened(f) ==
    /\ flat_validated' = Seen(validate_flattened_document(flatteners[f], flat_document))
    /\ UNCHANGED <<flatteners, flat_document, flat_documents, statistics>>
    /\ UNCHANGED <<projector_vars, sanitize_vars, json_vars, batch_vars,
                   thread_vars, ingest_vars>>

FlatNext ==
    \/ \E f \in DOMAIN flatteners : Flatten(f)
    \/ \E f \in DOMAIN flatteners : \E i \in 1..(MaxChunks + 1) : TakeRecord(f, i)
    \/ \E f \in DOMAIN flatteners : ValidateFlattened(f)

FlatSpec == FlatInit /\ [][FlatNext]_vars

---------------------------------------------------------------------------
(* C23 *)

\* the record has the field, with a value of one of the types
FieldIs(record, field, types) ==
    field \in DOMAIN record.d /\ record.d[field].t \in types

\* the record carries flattened_transcript, which is no str
HasBadTranscript(record) ==
    "flattened_transcript" \in DOMAIN record.d
    /\ record.d["flattened_transcript"].t # "str"

\* the record carries parentDocId and lacks a chunk field, or its text is no
\* str, or its start_offset, end_offset or speaker is no number
IsBadChunkRecord(record) ==
    /\ "parentDocId" \in DOMAIN record.d
    /\ \/ \E field \in {"speaker", "start_offset", "end_offset", "start_at", "end_at", "text"} :
              field \notin DOMAIN record.d
       \/ ~FieldIs(record, "text", {"str"})
       \/ ~FieldIs(record, "start_offset", {"int", "float"})
       \/ ~FieldIs(record, "end_offset", {"int", "float"})
       \/ ~FieldIs(record, "speaker", {"int", "float"})

\* the record has all common fields and a non-empty str id
HasCommonFields(record) ==
    /\ {"@search.action", "id", "transaction_key", "request_id", "sha256", "created",
        "duration", "channels", "Filename", "videolink"} \subseteq DOMAIN record.d
    /\ record.d["id"].t = "str"
    /\ record.d["id"].s # <<>>

\* C23: validate_flattened_document returns False for a record whose
\* flattened_transcript is no str and for a record with parentDocId that lacks
\* a chunk field or has a text that is no str or a start_offset, end_offset
\* or speaker that is no number; it returns True for a record that has all
\* common fields and a non-empty str id and none of these defects.
C23_RecordChecks ==
    (flat_validated.called /\ flat_document.t = "dict") =>
        /\ ~flat_validated.raised
        /\ HasBadTranscript(flat_document) => flat_validated.ret = FALSE
        /\ IsBadChunkRecord(flat_document) => flat_validated.ret = FALSE
        /\ (/\ HasCommonFields(flat_document)
            /\ ~HasBadTranscript(flat_document)
            /\ ~IsBadChunkRecord(flat_document)) => flat_validated.ret = TRUE

\* a chunk record whose speaker is the str "x" has been refused
C23_Witness ==
    /\ flat_validated.called
    /\ flat_document = With(GoodChunk, "speaker", PyStr(<<"x">>))
    /\ IsBadChunkRecord(flat_document)
    /\ flat_validated.ret = FALSE

---------------------------------------------------------------------------
(* C29 *)

\* the record is one of those a flatten_for_ai_search call on raw returned
IsReturnedRecord(record) ==
    \E f \in Instances :
        /\ Flattened(f)
        /\ \E i \in 1..Len(Records(f)) : Records(f)[i] = record

\* raw is of the data model: a non-empty str id, a str flattened_transcript,
\* and chunks with an int speaker, numeric start and end and a str text
IsOfDataModel(document) ==
    /\ IsTranscript(document)
    /\ document.d["metadata"].d["flattened_transcript"].t = "str"

\* C29: every record flatten_for_ai_search returned for a document of the
\* data model is accepted by validate_flattened_document.
C29_ReturnedRecordsValid ==
    (flat_validated.called /\ IsOfDataModel(raw) /\ IsReturnedRecord(flat_document)) =>
        (~flat_validated.raised /\ flat_validated.ret = TRUE)

\* the second chunk record of the document d1 has been validated and accepted
C29_Witness ==
    /\ raw = Source(PyStr(<<"d", "1">>), PyStr(<<"h", "i">>), PyInt(1))
    /\ Flattened(1)
    /\ Len(Records(1)) = 3
    /\ flat_document = Records(1)[3]
    /\ flat_validated.called
    /\ flat_validated.ret = TRUE

---------------------------------------------------------------------------
(* Two threads that each make one flatten_for_ai_search or flatten_json
   call, statement by statement *)

\* the address of the object a statement creates as it would be if every
\* call wrote to one and the same object
new_object_reused(objects) == 1

\* the address of the object `docs = []` or `flattened = {}` creates: every
\* execution of the statement creates a new object
new_object(objects) == Len(objects) + 1

\* the objects once the object at the address is the given one
store(objects, address, object) ==
    IF address > Len(objects) THEN Append(objects, object)
    ELSE [objects EXCEPT ![address] = object]

\* the call a thread makes
Call(method, f, arg, current_prefix) ==
    [method |-> method, f |-> f, arg |-> arg, prefix |-> current_prefix]

\* the calls made: flatten_for_ai_search on a document with two chunks, one
\* without chunks key, an invalid one and one whose created is no date;
\* flatten_json on a sequence deeper than max_depth 2, a mapping whose keys
\* collide and a scalar; on either instance
ThreadCalls ==
    {Call("flatten_for_ai_search", f, Disk[path].document, <<>>) :
        f \in {1, 2}, path \in {"two", "nochunks", "notext", "nodate"}}
    \cup {Call("flatten_json", f, v, <<>>) :
        f \in {1, 2},
        v \in {PyList(<<PyInt(1), PyList(<<PyList(<<PyInt(2)>>)>>)>>),
               PyDictItems(<< <<(<<"a">>), PyDictItems(<< <<(<<"b">>), PyInt(1)>> >>)>>,
                              <<(<<"a", "b">>), PyInt(2)>> >>),
               PyInt(1)}}

Threads == {1, 2}

\* the locals of a call that has not begun: meta, base, the chunks and the
\* position of the loop over them, the address of docs or flattened, and
\* the _flatten calls still to be made, the next one first
NewFrame ==
    [pc |-> "call", meta |-> PyNone, base |-> PyNone, items |-> <<>>, i |-> 0,
     object |-> 0, pending |-> <<>>]

ThreadsInit ==
    /\ flatteners = <<NewFlattener(<<"_">>, 10), NewFlattener(<<".">>, 2)>>
    /\ calls \in [Threads -> ThreadCalls]
    /\ frames = [t \in Threads |-> NewFrame]
    /\ heap = <<>>
    /\ thread_returned = [t \in Threads |-> NotCalled]
    /\ ProjectorIdle
    /\ SanitizeIdle
    /\ JsonIdle
    /\ BatchIdle
    /\ RecordsIdle
    /\ IngestIdle

\* the instance thread t calls
SelfOf(t) == flatteners[calls[t].f]

\* thread t is at the statement in the body of the method
At(t, method, statement) == calls[t].method = method /\ frames[t].pc = statement

\* what no statement of a call changes
ThreadsFrame ==
    /\ UNCHANGED <<flatteners, calls>>
    /\ UNCHANGED <<projector_vars, sanitize_vars, json_vars, batch_vars,
                   record_vars, ingest_vars>>

\* the call of thread t returns the value
Returns(t, value) ==
    /\ thread_returned' = [thread_returned EXCEPT ![t] = Seen(Return(value))]
    /\ frames' = [frames EXCEPT ![t].pc = "done"]
    /\ UNCHANGED heap

\* the statement of thread t ended with the outcome: an exception is caught
\* by `except Exception` and None returned, else the call goes on
Continues(t, outcome, goes_on(_)) ==
    IF outcome.kind = "raise" THEN Returns(t, PyNone)
    ELSE goes_on(outcome.val) /\ UNCHANGED thread_returned

\* if not self.validate_document_structure(raw): return None
SearchValidate(t) ==
    /\ At(t, "flatten_for_ai_search", "call")
    /\ IF ~validate_document_structure(SelfOf(t), calls[t].arg).val
       THEN Returns(t, PyNone)
       ELSE /\ frames' = [frames EXCEPT ![t].pc = "meta"]
            /\ UNCHANGED <<heap, thread_returned>>
    /\ ThreadsFrame

\* meta = raw["metadata"]; base = datetime.fromisoformat(...)
SearchMeta(t) ==
    /\ At(t, "flatten_for_ai_search", "meta")
    /\ Continues(t,
           Bind(py_item(calls[t].arg, "metadata"), LAMBDA meta :
           Bind(created_stripped(meta), LAMBDA stripped :
           Bind(fromisoformat(stripped), LAMBDA base :
           Return([meta |-> meta, base |-> base])))),
           LAMBDA got :
               /\ frames' = [frames EXCEPT ![t].pc = "docs", ![t].meta = got.meta,
                                           ![t].base = got.base]
               /\ UNCHANGED heap)
    /\ ThreadsFrame

\* docs = []
SearchDocs(t) ==
    /\ At(t, "flatten_for_ai_search", "docs")
    /\ frames' = [frames EXCEPT ![t].pc = "file_doc", ![t].object = new_object(heap)]
    /\ heap' = store(heap, new_object(heap), <<>>)
    /\ UNCHANGED thread_returned
    /\ ThreadsFrame

\* file_doc = {...}; docs.append(file_doc)
SearchFileDoc(t) ==
    /\ At(t, "flatten_for_ai_search", "file_doc")
    /\ Continues(t, file_doc(calls[t].arg, frames[t].meta),
           LAMBDA file :
               /\ heap' = store(heap, frames[t].object, Append(heap[frames[t].object], file))
               /\ frames' = [frames EXCEPT ![t].pc = "for"])
    /\ ThreadsFrame

\* for i, chunk in enumerate(raw["transcript_chunks"]): the loop begins
SearchFor(t) ==
    /\ At(t, "flatten_for_ai_search", "for")
    /\ Continues(t, Bind(py_item(calls[t].arg, "transcript_chunks"), py_iter),
           LAMBDA items :
               /\ frames' = [frames EXCEPT ![t].pc = "chunk", ![t].items = items, ![t].i = 0]
               /\ UNCHANGED heap)
    /\ ThreadsFrame

\* one pass of the loop: docs.append({...})
SearchChunk(t) ==
    /\ At(t, "flatten_for_ai_search", "chunk")
    /\ frames[t].i < Len(frames[t].items)
    /\ Continues(t,
           chunk_doc(SelfOf(t), calls[t].arg, frames[t].meta, frames[t].base,
                     frames[t].i, frames[t].items[frames[t].i + 1]),
           LAMBDA doc :
               /\ heap' = store(heap, frames[t].object, Append(heap[frames[t].object], doc))
               /\ frames' = [frames EXCEPT ![t].i = frames[t].i + 1])
    /\ ThreadsFrame

\* return docs
SearchReturn(t) ==
    /\ At(t, "flatten_for_ai_search", "chunk")
    /\ frames[t].i >= Len(frames[t].items)
    /\ Returns(t, PyList(heap[frames[t].object]))
    /\ ThreadsFrame

\* a _flatten call still to be made
Pending(obj, current_prefix, depth) ==
    [obj |-> obj, current_prefix |-> current_prefix, depth |-> depth]

\* flattened = {}; _flatten(nested_json, prefix) is to be made
JsonEnter(t) ==
    /\ At(t, "flatten_json", "call")
    /\ frames' = [frames EXCEPT ![t].pc = "_flatten", ![t].object = new_object(heap),
                                ![t].pending = <<Pending(calls[t].arg, calls[t].prefix, 0)>>]
    /\ heap' = store(heap, new_object(heap), EmptyDict)
    /\ UNCHANGED thread_returned
    /\ ThreadsFrame

\* the _flatten calls the body of _flatten(obj, current_prefix, depth) makes,
\* in order
flatten_calls(self, obj, current_prefix, depth) ==
    IF beyond_max_depth(self, depth) THEN <<>>
    ELSE IF obj.t = "dict"
    THEN [n \in 1..Len(obj.pairs) |->
              Pending(obj.pairs[n][2], dict_new_key(self, current_prefix, obj.pairs[n][1]),
                      depth + 1)]
    ELSE IF obj.t = "list"
    THEN [n \in 1..Len(obj.items) |->
              Pending(obj.items[n], list_new_key(current_prefix, n - 1), depth + 1)]
    ELSE <<>>

\* the next _flatten call is made: it returns at once beyond max_depth, has
\* its own calls made next for a mapping or a sequence, and writes the leaf
\* into flattened otherwise
JsonFlatten(t) ==
    /\ At(t, "flatten_json", "_flatten")
    /\ frames[t].pending # <<>>
    /\ LET next == Head(frames[t].pending) IN
       /\ frames' = [frames EXCEPT ![t].pending =
                         flatten_calls(SelfOf(t), next.obj, next.current_prefix, next.depth)
                         \o Tail(frames[t].pending)]
       /\ heap' = IF beyond_max_depth(SelfOf(t), next.depth) \/ next.obj.t \in {"dict", "list"}
                  THEN heap
                  ELSE store(heap, frames[t].object,
                             setitem(heap[frames[t].object], next.current_prefix,
                                     leaf_str(next.obj)))
    /\ UNCHANGED thread_returned
    /\ ThreadsFrame

\* return flattened
JsonReturn(t) ==
    /\ At(t, "flatten_json", "_flatten")
    /\ frames[t].pending = <<>>
    /\ Returns(t, PyDict(heap[frames[t].object]))
    /\ ThreadsFrame

ThreadsNext ==
    \/ \E t \in Threads : SearchValidate(t)
    \/ \E t \in Threads : SearchMeta(t)
    \/ \E t \in Threads : SearchDocs(t)
    \/ \E t \in Threads : SearchFileDoc(t)
    \/ \E t \in Threads : SearchFor(t)
    \/ \E t \in Threads : SearchChunk(t)
    \/ \E t \in Threads : SearchReturn(t)
    \/ \E t \in Threads : JsonEnter(t)
    \/ \E t \in Threads : JsonFlatten(t)
    \/ \E t \in Threads : JsonReturn(t)

ThreadsSpec == ThreadsInit /\ [][ThreadsNext]_vars

---------------------------------------------------------------------------
(* C24 *)

\* what the call returns when nothing else runs
RunAlone(call) ==
    IF call.method = "flatten_for_ai_search"
    THEN flatten_for_ai_search(flatteners[call.f], call.arg)
    ELSE flatten_json(flatteners[call.f], call.arg, call.prefix)

\* every call that has returned has returned what it returns alone
ReturnedAsAlone ==
    \A t \in Threads :
        thread_returned[t].called => thread_returned[t] = Seen(RunAlone(calls[t]))

\* a step leaves the instances and the arguments as they are, and leaves
\* the object of every thread whose locals it does not change as it is
StepsKeepApart ==
    /\ flatteners' = flatteners
    /\ calls' = calls
    /\ \A t \in Threads :
           (frames'[t] = frames[t] /\ frames[t].object # 0) =>
               heap'[frames[t].object] = heap[frames[t].object]

\* C24: under every interleaving of the statements of two calls, on one
\* instance or on two, each call returns what it returns when run alone, and
\* no statement of one call changes the instance, an argument or the object
\* the other call collects its output in.
C24_InterleaveSafely == []ReturnedAsAlone /\ [][StepsKeepApart]_vars

\* on one instance, thread 1 has returned the three records of its document
\* while thread 2 has appended the first two of the same three to its own list
C24_Witness ==
    /\ calls[1].f = calls[2].f
    /\ calls[1].method = "flatten_for_ai_search"
    /\ calls[2].method = "flatten_for_ai_search"
    /\ thread_returned[1].called
    /\ thread_returned[1].ret.t = "list"
    /\ Len(thread_returned[1].ret.items) = 3
    /\ frames[2].pc = "chunk"
    /\ frames[2].object # frames[1].object
    /\ Len(heap[frames[2].object]) = 2

---------------------------------------------------------------------------
(* DocumentIngestionPipeline: the helpers of the standard library *)

UpperCase == 
    <<"A", "B", "C", "D", "E", "F", "G", "H", "I", "J", "K", "L", "M", "N", "O", "P", "Q", "R", "S", "T", "U", "V", "W", "X", "Y", "Z">>
LowerCase == 
    <<"a", "b", "c", "d", "e", "f", "g", "h", "i", "j", "k", "l", "m", "n", "o", "p", "q", "r", "s", "t", "u", "v", "w", "x", "y", "z">>

\* str.lower() of the ASCII letters
py_lower(s) ==
    [i \in 1..Len(s) |->
        IF \E n \in 1..26 : UpperCase[n] = s[i]
        THEN LowerCase[CHOOSE n \in 1..26 : UpperCase[n] = s[i]]
        ELSE s[i]]

\* what follows the last c of s: all of s where it has no c
RECURSIVE after_last(_, _)
after_last(s, c) ==
    IF \A i \in 1..Len(s) : s[i] # c THEN s
    ELSE after_last(Tail(s), c)

\* os.path.basename(file_path)
basename(path) == after_last(path, "/")

\* file_name.split('.')[-1]
last_of_split(file_name) == after_last(file_name, ".")

\* the wall clock when the pipeline starts: 2024-02-28T23:59:58 UTC
EpochAtStart == 1709164798

\* int(time.time()) after ticks seconds
int_time(ticks) == EpochAtStart + ticks

\* datetime.now().isoformat() after ticks seconds, on a clock of whole seconds
now_isoformat(ticks) ==
    isoformat(datetime_add(fromisoformat(CreatedLeap).val, timedelta(PyInt(ticks)).val).val)

\* open(file_path, 'r', encoding='utf-8'): FileNotFoundError for a path that
\* is on no disk, IsADirectoryError for a directory
open_utf8(files, path) ==
    IF path \notin DOMAIN files THEN Raise("FileNotFoundError")
    ELSE IF files[path].kind = "dir" THEN Raise("IsADirectoryError")
    ELSE Return(files[path])

\* os.path.getsize(file_path): the bytes of a text file
getsize(files, path) ==
    Bind(open_utf8(files, path), LAMBDA file : Return(PyInt(Len(file.source))))

---------------------------------------------------------------------------
(* DocumentIngestionPipeline *)

\* the fields __init__ sets: a method by file type, and a JSONFlattener()
NewPipeline ==
    [supported_file_types |->
        (<<"j", "s", "o", "n">> :> "_process_json") @@ (<<"m", "d">> :> "_process_markdown")
        @@ (<<"t", "x", "t">> :> "_process_text"),
     json_flattener |-> NewFlattener(<<"_">>, 10)]

\* lines 73-78: the file is read as UTF-8 and parsed; None after any exception
_process_json(files, path) ==
    Except(Bind(open_utf8(files, path), LAMBDA file : json_load(file, "utf-8")), PyNone)

\* lines 82-105 and 109-132: the text of the file in a dict of five keys;
\* None after any exception
processed_text(files, path, id_prefix, file_type, data_source, ticks) ==
    Except(Bind(open_utf8(files, path), LAMBDA file :
           Bind(read(file, "utf-8"), LAMBDA content :
           Return(PyDict(
               [id |-> PyStr(id_prefix \o NatChars(int_time(ticks))),
                content |-> PyStr(content),
                metadata |-> PyDict([file_type |-> PyStr(file_type),
                                     file_name |-> PyStr(basename(path)),
                                     language |-> PyStr(<<"e", "n">>)]),
                source |-> PyDict([data_source |-> PyStr(data_source),
                                   path |-> PyStr(path)]),
                timestamp |-> PyDict([processed_date |-> PyStr(now_isoformat(ticks))])])))),
           PyNone)

_process_markdown(files, path, ticks) ==
    processed_text(files, path, <<"m", "d", "-">>, <<"m", "a", "r", "k", "d", "o", "w", "n">>, <<"m", "a", "r", "k", "d", "o", "w", "n", "_", "p", "r", "o", "c", "e", "s", "s", "i", "n", "g">>, ticks)

_process_text(files, path, ticks) ==
    processed_text(files, path, <<"t", "x", "t", "-">>, <<"t", "e", "x", "t">>, <<"t", "e", "x", "t", "_", "p", "r", "o", "c", "e", "s", "s", "i", "n", "g">>, ticks)

\* self.supported_file_types[file_extension](file_path)
process_file(self, files, file_extension, path, ticks) ==
    CASE self.supported_file_types[file_extension] = "_process_json" ->
           _process_json(files, path)
      [] self.supported_file_types[file_extension] = "_process_markdown" ->
           _process_markdown(files, path, ticks)
      [] self.supported_file_types[file_extension] = "_process_text" ->
           _process_text(files, path, ticks)

\* mapping.get(key, default): AttributeError for a list, a str or None,
\* which have no get
get_default(mapping, key, default) ==
    IF mapping.t # "dict" THEN Raise("AttributeError")
    ELSE Return(get_or(mapping, key, default))

\* document_data.get(section, {}).get(key, default)
get_in(document_data, section, key, default) ==
    Bind(get_default(document_data, section, PyDict(EmptyDict)), LAMBDA inner :
         get_default(inner, key, default))

\* document_data.get(section, {}).get(key, info.get(info_key, info_default)):
\* the section is read and its get looked up before info is read
get_in_or_info(document_data, section, key, info, info_key, info_default) ==
    Bind(get_default(document_data, section, PyDict(EmptyDict)), LAMBDA inner :
         IF inner.t # "dict" THEN Raise("AttributeError")
         ELSE Bind(get_default(info, info_key, info_default), LAMBDA default :
                   get_default(inner, key, default)))

\* the values of the dict display of lines 144-186 in the order Python reads
\* them, each one the outcome of its get
standardized_values(files, path, file_name, file_extension, document_data, info, ticks) ==
    LET ext == PyStr(file_extension)
        now == PyStr(now_isoformat(ticks))
    IN
    << <<"content", get_default(document_data, "content", PyStr(<<>>))>>,
       <<"original_file_type", get_in(document_data, "metadata", "file_type", ext)>>,
       <<"file_size", getsize(files, path)>>,
       <<"page_count", get_in(document_data, "metadata", "page_count", PyInt(1))>>,
       <<"language", get_in(document_data, "metadata", "language", PyStr(<<"e", "n">>))>>,
       <<"author", get_in_or_info(document_data, "metadata", "author",
                                  info, "author", PyStr(<<"U", "n", "k", "n", "o", "w", "n">>))>>,
       <<"title", get_in(document_data, "metadata", "title", PyStr(file_name))>>,
       <<"category", get_in_or_info(document_data, "metadata", "category",
                                    info, "category", PyStr(<<"g", "e", "n", "e", "r", "a", "l">>))>>,
       <<"data_source", get_default(info, "data_source", PyStr(<<"p", "r", "e", "p", "r", "o", "c", "e", "s", "s", "e", "d", "_", "f", "i", "l", "e", "s">>))>>,
       <<"container", get_default(info, "container", PyStr(<<"d", "o", "c", "u", "m", "e", "n", "t", "s">>))>>,
       <<"url", get_default(info, "url", PyStr(<<>>))>>,
       <<"sharepoint_site", get_default(info, "sharepoint_site", PyStr(<<>>))>>,
       <<"blob_container", get_default(info, "blob_container", PyStr(<<>>))>>,
       <<"original_format", get_in(document_data, "source", "original_format", ext)>>,
       <<"created_date", get_in_or_info(document_data, "timestamp", "created_date",
                                        info, "created_date", now)>>,
       <<"modified_date", get_in(document_data, "timestamp", "modified_date", now)>>,
       <<"summary", get_default(document_data, "summary", PyStr(<<>>))>>,
       <<"keywords", get_default(document_data, "keywords", PyStr(<<>>))>>,
       <<"is_active", get_default(document_data, "is_active", PyBool(TRUE))>>,
       <<"priority", Bind(get_default(info, "priority", PyInt(1)), LAMBDA default :
                          get_default(document_data, "priority", default))>> >>

\* lines 144-186: the dict of eight keys, or the exception of the first get
\* that raises
standardized(files, path, file_name, file_extension, document_data, info, ticks, doc_id) ==
    LET values == standardized_values(files, path, file_name, file_extension,
                                      document_data, info, ticks)
        raising == {i \in 1..Len(values) : values[i][2].kind = "raise"}
        value == [name \in {values[i][1] : i \in 1..Len(values)} |->
                     (values[CHOOSE i \in 1..Len(values) : values[i][1] = name][2]).val]
    IN  IF raising # {}
        THEN values[CHOOSE i \in raising : \A j \in raising : i <= j][2]
        ELSE Return(PyDict(
            [id |-> doc_id,
             content |-> value["content"],
             metadata |-> PyDict(
                 [file_type |-> PyStr(file_extension), file_name |-> PyStr(file_name),
                  original_file_type |-> value["original_file_type"],
                  file_size |-> value["file_size"], page_count |-> value["page_count"],
                  language |-> value["language"], author |-> value["author"],
                  title |-> value["title"], category |-> value["category"]]),
             source |-> PyDict(
                 [data_source |-> value["data_source"], container |-> value["container"],
                  path |-> PyStr(path), url |-> value["url"],
                  sharepoint_site |-> value["sharepoint_site"],
                  blob_container |-> value["blob_container"],
                  original_format |-> value["original_format"]]),
             timestamp |-> PyDict(
                 [created_date |-> value["created_date"],
                  modified_date |-> value["modified_date"],
                  processed_date |-> PyStr(now_isoformat(ticks))]),
             summary |-> value["summary"],
             keywords |-> value["keywords"],
             is_active |-> value["is_active"],
             priority |-> value["priority"]]))

\* self._create_standardized_document(...): line 141 reads the id with
\* document_data.get, then the dict is built
_create_standardized_document(files, path, file_name, file_extension, document_data, info, ticks) ==
    Bind(get_default(document_data, "id",
                     PyStr(file_extension \o <<"-">> \o NatChars(int_time(ticks)))),
         LAMBDA doc_id :
             standardized(files, path, file_name, file_extension, document_data,
                          info, ticks, doc_id))

\* lines 52-53: document_data as line 56 gets it, the flattener's records in
\* place of the parsed document for a json file
flattened_if_json(self, file_extension, document_data) ==
    IF file_extension = <<"j", "s", "o", "n">>
    THEN flatten_for_ai_search(self.json_flattener, document_data)
    ELSE Return(document_data)

\* lines 38-65, the body of the try block
ingest_uncaught(self, files, path, info, ticks) ==
    LET file_name == basename(path)
        file_extension == py_lower(last_of_split(file_name))
    IN  IF file_extension \notin DOMAIN self.supported_file_types
        THEN Raise("ValueError")
        ELSE Bind(process_file(self, files, file_extension, path, ticks), LAMBDA loaded :
             IF ~Truthy(loaded) THEN Raise("ValueError")
             ELSE Bind(flattened_if_json(self, file_extension, loaded), LAMBDA document_data :
                  _create_standardized_document(files, path, file_name, file_extension,
                                                document_data, info, ticks)))

\* self.ingest_preprocessed_document(file_path, info): None after any
\* exception
ingest_preprocessed_document(self, files, path, info, ticks) ==
    Except(ingest_uncaught(self, files, path, info, ticks), PyNone)

\* lines 197-199: the document is appended if it is truthy
appended_if_any(docs, document) ==
    IF Truthy(document) THEN Append(docs, document) ELSE docs

---------------------------------------------------------------------------
(* batch_ingest_preprocessed on the files of a disk *)

\* the bytes of U+00E9 in Latin-1, which are no UTF-8
TextLatin1 == File(NotJson, Latin1)

\* the files on the disk, by path; gone.md is on no disk
IngestDisk ==
    (<<"i", "n", "/", "t", "w", "o", ".", "j", "s", "o", "n">> :> Disk.two)
    @@ (<<"n", "o", "n", "e", ".", "J", "S", "O", "N">> :> Disk.none)
    @@ (<<"n", "o", "c", "h", "u", "n", "k", "s", ".", "j", "s", "o", "n">> :> Disk.nochunks)
    @@ (<<"a", ".", "m", "d">> :> File(NotJson, Ascii))
    @@ (<<"i", "n", "/", "b", ".", "t", "x", "t">> :> File(NotJson, Utf8))
    @@ (<<"l", ".", "m", "d">> :> TextLatin1)
    @@ (<<"c", ".", "p", "d", "f">> :> File(NotJson, Ascii))

\* the paths a caller passes
IngestPaths == DOMAIN IngestDisk \cup {<<"g", "o", "n", "e", ".", "m", "d">>}

\* the source_info a caller passes: no entry, two entries, and None
SourceInfos ==
    {PyDict(EmptyDict),
     PyDict([author |-> PyStr(<<"A">>), priority |-> PyInt(2)]),
     PyNone}

IngestInit ==
    /\ flatteners = <<NewFlattener(<<"_">>, 10), NewFlattener(<<".">>, 2)>>
    /\ disk = IngestDisk
    /\ file_paths \in SeqsUpTo(IngestPaths, MaxFiles)
    /\ source_info \in SourceInfos
    /\ ingest_pc = "for"
    /\ ingest_index = 1
    /\ ingest_document = PyNone
    /\ documents = <<>>
    /\ ingest_returned = NotCalled
    /\ json_files = <<>>
    /\ validate_only = FALSE
    /\ pc = "idle"
    /\ file_path = 0
    /\ flattened_documents = <<>>
    /\ processed_count = 0
    /\ error_count = 0
    /\ batch_returned = NotCalled
    /\ ProjectorIdle
    /\ SanitizeIdle
    /\ JsonIdle
    /\ RecordsIdle
    /\ ThreadsIdle

\* one pass of `for file_path in file_paths`
IngestVisit ==
    /\ ingest_pc = "for"
    /\ ingest_index <= Len(file_paths)
    /\ ingest_document' =
           ingest_preprocessed_document(NewPipeline, disk, file_paths[ingest_index],
                                        source_info, clock).val
    /\ documents' = appended_if_any(documents, ingest_document')
    /\ ingest_index' = ingest_index + 1
    /\ UNCHANGED <<file_paths, source_info, ingest_pc, ingest_returned>>
    /\ UNCHANGED <<flatteners, projector_vars, sanitize_vars, json_vars, batch_vars,
                   record_vars, thread_vars>>

\* the loop is over: the list is returned
IngestReturn ==
    /\ ingest_pc = "for"
    /\ ingest_index > Len(file_paths)
    /\ ingest_pc' = "done"
    /\ ingest_returned' = Seen(Return(PyList(documents)))
    /\ UNCHANGED <<file_paths, source_info, ingest_index, ingest_document, documents>>
    /\ UNCHANGED <<flatteners, projector_vars, sanitize_vars, json_vars, batch_vars,
                   record_vars, thread_vars>>

IngestNext == IngestVisit \/ IngestReturn \/ Tick

IngestSpec == IngestInit /\ [][IngestNext]_vars

---------------------------------------------------------------------------
(* C30: a readable .json file of a well-formed transcript is ingested *)

\* the path ends in ".json"
IsJsonPath(path) ==
    /\ Len(path) >= 5
    /\ SubSeq(path, Len(path) - 4, Len(path)) = <<".", "j", "s", "o", "n">>

\* the document json.load reads from the file at path
LoadedFrom(path) == json_load(disk[path], "utf-8")

\* path is a readable .json file holding a well-formed transcript document
\* that flatten_for_ai_search flattens into a list of records
IsFlattenedTranscriptFile(path) ==
    /\ IsJsonPath(path)
    /\ path \in DOMAIN disk
    /\ disk[path].kind = "file"
    /\ LoadedFrom(path).kind = "return"
    /\ IsTranscript(LoadedFrom(path).val)
    /\ flatten_for_ai_search(NewPipeline.json_flattener, LoadedFrom(path).val).val.t = "list"

\* the file the loop visited last
LastIngested == file_paths[ingest_index - 1]

\* document is a standardized document with the id of the document in the
\* file at path
IsStandardizedOf(document, path) ==
    /\ document.t = "dict"
    /\ "id" \in DOMAIN document.d
    /\ document.d["id"] = LoadedFrom(path).val.d["id"]

\* C30: ingest_preprocessed_document, given a readable .json file holding a
\* well-formed transcript document that flatten_for_ai_search flattens
\* successfully (and a source_info that is a dict), returns a non-null
\* standardized document whose id is the input document's id, and
\* batch_ingest_preprocessed includes that document in its result.
C30_JsonIngested ==
    /\ (ingest_index > 1 /\ source_info.t = "dict"
        /\ IsFlattenedTranscriptFile(LastIngested))
       => /\ IsStandardizedOf(ingest_document, LastIngested)
          /\ \E n \in 1..Len(documents) : documents[n] = ingest_document
    /\ (ingest_returned.called /\ source_info.t = "dict")
       => \A i \in 1..Len(file_paths) :
              IsFlattenedTranscriptFile(file_paths[i])
              => \E n \in 1..Len(ingest_returned.ret.items) :
                     IsStandardizedOf(ingest_returned.ret.items[n], file_paths[i])

===========================================================================
